---- MODULE Spec2Model ----
(***************************************************************************)
(* Fee computation and resilient caching engine of the chain gas fee       *)
(* dashboard: services/rpc.py (JSON-RPC transport with retry/backoff),     *)
(* services/gas.py (fee-model strategies, TTL cache, last-known-good       *)
(* store, payload rendering).                                              *)
(*                                                                         *)
(* Python values are tagged records.  Optional[str] is a sequence: <<>>    *)
(* is None, <<s>> is the string s.  An exception is [cls, msg]; a message  *)
(* is a sequence of parts, a part being text or an embedded URL.           *)
(***************************************************************************)
EXTENDS Integers, Sequences, FiniteSets, TLC

(***************************************************************************)
(* Bounds of the exploration.                                              *)
(***************************************************************************)
NumTasks == 2
MaxCalls == 3
MaxTime == 5
NumRaceTasks == 3  \* coroutines racing for one key
MaxRetries == 2    \* the retries argument of call_rpc ranges over 0..MaxRetries
MaxScriptLen == 3  \* responses a node script spells out before the last one repeats
MaxFee == 4        \* gas prices and L1 fees of rendered snapshots range over 0..MaxFee
MaxGas == 4        \* gas amounts and gas limits of rendered snapshots range up to MaxGas

(***************************************************************************)
(* Program constants.                                                      *)
(***************************************************************************)
DEFAULT_RETRIES == 2
INITIAL_BACKOFF_MS == 500
cache_ttl_seconds == 5
RETRYABLE_STATUS == {429, 500, 502, 503, 504}
OP_GAS_ORACLE == "0x420000000000000000000000000000000000000F"

None == [t |-> "None"]

(***************************************************************************)
(* Results of Python calls: a value or a raised exception.                 *)
(***************************************************************************)
Text(s) == [t |-> "text", s |-> s]

Exc(cls, msg) == [cls |-> cls, msg |-> msg]

Return(v) == [ok |-> TRUE, val |-> v]

Raise(cls, msg) == [ok |-> FALSE, exc |-> Exc(cls, msg)]

(* except (RPCError, httpx.HTTPError): HTTPStatusError and every           *)
(* RequestError (ConnectError, ReadTimeout, ...) derive from HTTPError.    *)
HTTPErrorClasses == {"HTTPStatusError", "ConnectError", "ReadTimeout"}

RequestErrorClasses == {"ConnectError", "ReadTimeout"}

(***************************************************************************)
(* config.py: ChainSettings records and the settings gas.py reads.         *)
(***************************************************************************)
Url(scheme, netloc, rest) == [t |-> "url", scheme |-> scheme, netloc |-> netloc, rest |-> rest]

ChainSettings(key, name, symbol, id, model, env, infura) ==
    [key |-> key, display_name |-> name, symbol |-> symbol, chain_id |-> id,
     rpc_env |-> env, native_gas_limit |-> 21000,
     infura_network |-> infura, fee_model |-> model,
     erc20_gas_limit |-> 55000, erc20_token_symbol |-> "WBTC"]

Chains ==
    { ChainSettings("ethereum", "Ethereum", "ETH", 1, "l1", "RPC_ETHEREUM_URL", <<"mainnet">>),
      ChainSettings("optimism", "Optimism", "ETH", 10, "optimism", "RPC_OPTIMISM_URL", <<>>),
      ChainSettings("arbitrum", "Arbitrum One", "ETH", 42161, "arbitrum", "RPC_ARBITRUM_URL", <<>>),
      ChainSettings("linea", "Linea", "ETH", 59144, "linea", "RPC_LINEA_URL", <<>>) }

fee_history_reward_percentile == 50

(***************************************************************************)
(* JSON values carried by RPC responses.                                   *)
(***************************************************************************)
JInt(n) == [t |-> "int", v |-> n]

JHex(digits) == [t |-> "str", hex |-> TRUE, digits |-> digits]

JStr(s) == [t |-> "str", hex |-> FALSE, s |-> s]

JNull == [t |-> "null"]

JList(items) == [t |-> "list", items |-> items]

JDict(fields) == [t |-> "dict", f |-> fields]

RECURSIVE HexValue(_)
HexValue(digits) ==
    IF digits = <<>> THEN 0
    ELSE 16 * HexValue(SubSeq(digits, 1, Len(digits) - 1)) + digits[Len(digits)]

(* gas.py _hex_to_int: an int passes through, anything else goes to       *)
(* int(value, 16).                                                        *)
HexToInt(value) ==
    IF value.t = "int" THEN Return(value.v)
    ELSE IF value.t = "str"
         THEN IF value.hex /\ value.digits # <<>>
              THEN Return(HexValue(value.digits))
              ELSE Raise("ValueError", <<Text("invalid literal for int() with base 16")>>)
         ELSE Raise("TypeError", <<Text("int() can't convert non-string with explicit base")>>)

(* data[name] on a decoded JSON value.                                     *)
GetItem(data, name) ==
    IF data.t = "dict"
    THEN IF name \in DOMAIN data.f
         THEN Return(data.f[name])
         ELSE Raise("KeyError", <<Text(name)>>)
    ELSE Raise("TypeError", <<Text("indices must be integers")>>)

(***************************************************************************)
(* rpc.py: one response of the node to one POST.                           *)
(***************************************************************************)
ConnFail(cls) == [t |-> "conn", cls |-> cls]

HttpJson(status, data) == [t |-> "http", status |-> status, json |-> TRUE, data |-> data]

HttpText(status) == [t |-> "http", status |-> status, json |-> FALSE]

OkResult(v) == HttpJson(200, JDict([jsonrpc |-> JStr("2.0"), id |-> JInt(1), result |-> v]))

NoResult == HttpJson(200, JDict([jsonrpc |-> JStr("2.0"), id |-> JInt(1)]))

ErrorObject(msg) ==
    HttpJson(200, JDict([jsonrpc |-> JStr("2.0"), id |-> JInt(1),
                         error |-> JDict([code |-> JInt(-32000), message |-> JStr(msg)])]))

ErrorNoMessage ==
    HttpJson(200, JDict([jsonrpc |-> JStr("2.0"), id |-> JInt(1),
                         error |-> JDict([code |-> JInt(-32000)])]))

Min(a, b) == IF a < b THEN a ELSE b

(* The node is a script of responses; the last one repeats.                *)
ResponseAt(script, n) == script[Min(n, Len(script))]

(* A variant of HandleResponse with one slip: a body with an error field   *)
(* is taken for a connection failure.                                      *)
HandleResponseErrorTransient(resp, url) ==
    IF resp.t = "conn" THEN Raise(resp.cls, <<Text("All connection attempts failed")>>)
    ELSE IF resp.status >= 400
         THEN [ok |-> FALSE, status |-> resp.status,
               exc |-> Exc("HTTPStatusError",
                           <<Text("error status " \o ToString(resp.status) \o " for url "), url>>)]
         ELSE IF ~resp.json
              THEN Raise("JSONDecodeError", <<Text("Expecting value")>>)
              ELSE IF resp.data.t = "dict" /\ "error" \in DOMAIN resp.data.f
                   THEN Raise("ConnectError", <<Text("All connection attempts failed")>>)
                   ELSE Return(resp.data)

(* rpc.py call_rpc, one pass of the try body (lines 36-42).                *)
HandleResponse(resp, url) ==
    IF resp.t = "conn" THEN Raise(resp.cls, <<Text("All connection attempts failed")>>)
    ELSE IF resp.status >= 400
         THEN [ok |-> FALSE, status |-> resp.status,
               exc |-> Exc("HTTPStatusError",
                           <<Text("error status " \o ToString(resp.status) \o " for url "), url>>)]
         ELSE IF ~resp.json
              THEN Raise("JSONDecodeError", <<Text("Expecting value")>>)
              ELSE IF resp.data.t = "dict" /\ "error" \in DOMAIN resp.data.f
                   THEN LET err == resp.data.f["error"] IN
                        IF err.t # "dict"
                        THEN Raise("AttributeError", <<Text("object has no attribute 'get'")>>)
                        ELSE IF "message" \in DOMAIN err.f
                             THEN Raise("RPCError", <<Text(err.f["message"].s)>>)
                             ELSE Raise("RPCError", <<Text("unknown RPC error")>>)
                   ELSE Return(resp.data)

(* rpc.py call_rpc: the retry loop.  The result carries the number of      *)
(* POSTs and the sleeps taken.                                             *)
RECURSIVE CallRpcLoop(_, _, _, _, _, _)
CallRpcLoop(script, url, retries, attempt, backoff, sleeps) ==
    LET r == HandleResponse(ResponseAt(script, attempt + 1), url)
        done == [res |-> [ok |-> r.ok] @@ (IF r.ok THEN [val |-> r.val] ELSE [exc |-> r.exc]),
                 posts |-> attempt + 1, sleeps |-> sleeps]
    IN IF r.ok THEN done
       ELSE IF r.exc.cls = "HTTPStatusError"
            THEN IF attempt < retries /\ r.status \in RETRYABLE_STATUS
                 THEN CallRpcLoop(script, url, retries, attempt + 1, backoff * 2,
                                  Append(sleeps, backoff))
                 ELSE done
            ELSE IF r.exc.cls \in RequestErrorClasses
                 THEN IF attempt < retries
                      THEN CallRpcLoop(script, url, retries, attempt + 1, backoff * 2,
                                       Append(sleeps, backoff))
                      ELSE done
                 ELSE done

(* Variants of call_rpc, each with one slip.                                *)
(* No retry at all.                                                        *)
call_rpcNoRetry(script, url, retries, initial_backoff) ==
    CallRpcLoop(script, url, 0, 0, initial_backoff, <<>>)

(* One retry more than asked for.                                          *)
call_rpcExtraRetry(script, url, retries, initial_backoff) ==
    CallRpcLoop(script, url, retries + 1, 0, initial_backoff, <<>>)

(* The error that ends the call is wrapped in an RPCError.                 *)
call_rpcWrapped(script, url, retries, initial_backoff) ==
    LET c == CallRpcLoop(script, url, retries, 0, initial_backoff, <<>>)
    IN IF c.res.ok THEN c
       ELSE [c EXCEPT !.res = Raise("RPCError", c.res.exc.msg)]

call_rpc(script, url, retries, initial_backoff) ==
    CallRpcLoop(script, url, retries, 0, initial_backoff, <<>>)

(* Python truthiness of an environment value or a JSON value.              *)
Truthy(v) ==
    CASE v.t = "None" -> FALSE
      [] v.t = "null" -> FALSE
      [] v.t = "text" -> v.s # ""
      [] v.t = "list" -> v.items # <<>>
      [] v.t = "int" -> v.v # 0
      [] OTHER -> TRUE

(* A variant of resolve_rpc_url with one slip: a local default endpoint    *)
(* instead of the error.                                                   *)
resolve_rpc_urlDefault(chain, osenv) ==
    IF Truthy(osenv.rpc)
    THEN Return(osenv.rpc)
    ELSE IF Truthy(osenv.project_id) /\ chain.infura_network # <<>>
            /\ chain.infura_network # <<"">>
         THEN Return(Url("https", chain.infura_network[1] \o ".infura.io",
                         "/v3/" \o osenv.project_id.s))
         ELSE Return(Url("http", "localhost:8545", "/"))

(* rpc.py resolve_rpc_url: osenv holds os.getenv(chain.rpc_env) and        *)
(* os.getenv("INFURA_PROJECT_ID"): None, Text("") or a value.              *)
resolve_rpc_url(chain, osenv) ==
    IF Truthy(osenv.rpc)
    THEN Return(osenv.rpc)
    ELSE IF Truthy(osenv.project_id) /\ chain.infura_network # <<>>
            /\ chain.infura_network # <<"">>
         THEN Return(Url("https", chain.infura_network[1] \o ".infura.io",
                         "/v3/" \o osenv.project_id.s))
         ELSE Raise("RPCError", <<Text("RPC endpoint missing. Set "), Text(chain.rpc_env),
                                  Text(" or INFURA_PROJECT_ID.")>>)

(***************************************************************************)
(* gas.py: notes.                                                          *)
(***************************************************************************)
RECURSIVE JoinNotes(_)
JoinNotes(parts) ==
    IF Len(parts) = 1 THEN parts[1]
    ELSE parts[1] \o ", " \o JoinNotes(Tail(parts))

_combine_notes(notes) ==
    LET filtered == SelectSeq(notes, LAMBDA n : n # <<>> /\ n # <<"">>)
    IN IF filtered = <<>> THEN <<>>
       ELSE <<JoinNotes([i \in 1..Len(filtered) |-> filtered[i][1]])>>

(***************************************************************************)
(* gas.py: the RPC steps of the strategies.  env maps each RPC method to   *)
(* the node's script for it.  Every step returns [res, calls], calls being *)
(* the log of the RPC calls it issued.                                     *)
(***************************************************************************)
_build_tx_payload ==
    [from |-> "0x000000000000000000000000000000000000dead",
     to |-> "0x000000000000000000000000000000000000beef",
     value |-> 1, data |-> "0x"]

(* A Python assignment: x is evaluated once and named in what follows.     *)
Bind(x, F(_)) == F(x)

Rpc(env, url, method, params) ==
    Bind(call_rpc(env[method], url, DEFAULT_RETRIES, INITIAL_BACKOFF_MS), LAMBDA c :
         [res |-> c.res,
          calls |-> <<[method |-> method, params |-> params, posts |-> c.posts,
                       sleeps |-> c.sleeps]>>])

(* resp["result"] then _hex_to_int, as in lines 180, 236, 250, 281, 294.   *)
ResultInt(res) ==
    IF ~res.ok THEN res
    ELSE LET item == GetItem(res.val, "result")
         IN IF ~item.ok THEN item ELSE HexToInt(item.val)

(* A variant of _estimate_gas with one slip: the fallback is not used, a   *)
(* failure is always raised.                                               *)
_estimate_gasNoFallback(env, url, tx, fallback) ==
    LET c == Rpc(env, url, "eth_estimateGas", <<tx>>)
        r == ResultInt(c.res)
    IN [res |-> IF r.ok THEN Return(<<r.val, <<"eth_estimateGas">> >>)
                ELSE Raise("RPCError", <<Text("estimateGas failed: ")>> \o r.exc.msg),
        calls |-> c.calls]

_estimate_gas(env, url, tx, fallback) ==
    Bind(Rpc(env, url, "eth_estimateGas", <<tx>>), LAMBDA c :
    Bind(ResultInt(c.res), LAMBDA r :
         [res |-> IF r.ok THEN Return(<<r.val, <<"eth_estimateGas">> >>)
                  ELSE IF fallback # <<>>
                       THEN Return(<<fallback[1], <<"fallback:" \o r.exc.cls>> >>)
                       ELSE Raise("RPCError", <<Text("estimateGas failed: ")>> \o r.exc.msg),
          calls |-> c.calls]))

(* value[-1] on a JSON list.                                               *)
LastItem(v) ==
    IF v.t # "list" THEN Raise("TypeError", <<Text("not subscriptable")>>)
    ELSE IF v.items = <<>> THEN Raise("IndexError", <<Text("list index out of range")>>)
         ELSE Return(v.items[Len(v.items)])

(* lines 269-277: base fee and priority fee out of an eth_feeHistory       *)
(* result; priority is <<>> when no reward was usable.                     *)
FeeHistoryFees(data) ==
    Bind(GetItem(data, "result"), LAMBDA result :
    IF ~result.ok THEN result ELSE
    Bind(GetItem(result.val, "baseFeePerGas"), LAMBDA fees :
    IF ~fees.ok THEN fees ELSE
    Bind(LastItem(fees.val), LAMBDA base_fee_hex :
    IF ~base_fee_hex.ok THEN base_fee_hex ELSE
    Bind(HexToInt(base_fee_hex.val), LAMBDA base_fee :
    IF ~base_fee.ok THEN base_fee ELSE
    Bind(IF "reward" \in DOMAIN result.val.f THEN result.val.f["reward"] ELSE JNull,
         LAMBDA rewards :
    IF ~Truthy(rewards) THEN Return([base_fee |-> base_fee.val, priority_fee |-> <<>>]) ELSE
    Bind(LastItem(rewards), LAMBDA last_reward :
    IF ~last_reward.ok THEN last_reward ELSE
    IF ~Truthy(last_reward.val) THEN Return([base_fee |-> base_fee.val, priority_fee |-> <<>>]) ELSE
    Bind(IF last_reward.val.t = "list" THEN HexToInt(last_reward.val.items[1])
         ELSE Raise("TypeError", <<Text("not subscriptable")>>), LAMBDA priority :
    IF ~priority.ok THEN priority
    ELSE Return([base_fee |-> base_fee.val, priority_fee |-> <<priority.val>>]))))))))

PercentileNote == "feeHistory(p" \o ToString(fee_history_reward_percentile) \o ")"

(* A variant of the except branch with one slip: the mode of the fallback  *)
(* price is left at eip1559.                                               *)
GasPriceFallbackEip1559(env, url, exc, calls) ==
    Bind(Rpc(env, url, "eth_gasPrice", <<>>), LAMBDA c :
    Bind(ResultInt(c.res), LAMBDA r :
         [res |-> IF r.ok
                  THEN Return(<<r.val, <<"fallback gasPrice (" \o exc.cls \o ")">>, "eip1559">>)
                  ELSE r,
          calls |-> calls \o c.calls]))

(* lines 292-295: the except branch of _effective_gas_price.               *)
GasPriceFallback(env, url, exc, calls) ==
    Bind(Rpc(env, url, "eth_gasPrice", <<>>), LAMBDA c :
    Bind(ResultInt(c.res), LAMBDA r :
         [res |-> IF r.ok
                  THEN Return(<<r.val, <<"fallback gasPrice (" \o exc.cls \o ")">>, "legacy">>)
                  ELSE r,
          calls |-> calls \o c.calls]))

_effective_gas_price(env, url) ==
    Bind(Rpc(env, url, "eth_feeHistory", <<5, "latest", <<fee_history_reward_percentile>> >>),
         LAMBDA h :
    Bind(IF h.res.ok THEN FeeHistoryFees(h.res.val) ELSE h.res, LAMBDA fees :
    IF ~fees.ok THEN GasPriceFallback(env, url, fees.exc, h.calls)
    ELSE IF fees.val.priority_fee = <<>>
         THEN Bind(Rpc(env, url, "eth_maxPriorityFeePerGas", <<>>), LAMBDA p :
              Bind(ResultInt(p.res), LAMBDA r :
              IF ~r.ok THEN GasPriceFallback(env, url, r.exc, h.calls \o p.calls)
              ELSE [res |-> Return(<<fees.val.base_fee + r.val,
                                     <<PercentileNote \o "+maxPriority">>, "eip1559">>),
                    calls |-> h.calls \o p.calls]))
         ELSE [res |-> Return(<<fees.val.base_fee + fees.val.priority_fee[1],
                                <<PercentileNote>>, "eip1559">>),
               calls |-> h.calls]))

(***************************************************************************)
(* gas.py: the four strategies.  A FeeComputation is a record.             *)
(***************************************************************************)
FeeComputation(gas_price, gas_used, native_fee, mode, notes, l1_fee) ==
    [gas_price_wei |-> gas_price, gas_used |-> gas_used, native_fee_wei |-> native_fee,
     mode |-> mode, notes |-> notes, l1_fee_wei |-> l1_fee]

_compute_fee_l1(chain, osenv, env) ==
    Bind(resolve_rpc_url(chain, osenv), LAMBDA url :
    IF ~url.ok THEN [res |-> url, calls |-> <<>>] ELSE
    Bind(_estimate_gas(env, url.val, _build_tx_payload, <<chain.native_gas_limit>>), LAMBDA g :
    IF ~g.res.ok THEN g ELSE
    Bind(_effective_gas_price(env, url.val), LAMBDA p :
    IF ~p.res.ok THEN [res |-> p.res, calls |-> g.calls \o p.calls] ELSE
    LET gas_used == g.res.val[1]
        gas_price == p.res.val[1]
    IN [res |-> Return(FeeComputation(gas_price, gas_used, gas_used * gas_price,
                                      "l1:" \o p.res.val[3],
                                      _combine_notes(<<g.res.val[2], p.res.val[2]>>), 0)),
        calls |-> g.calls \o p.calls])))

(* A variant of _compute_fee_arbitrum with one slip: the gas estimate falls *)
(* back to the chain's native_gas_limit as in the l1 strategy.             *)
_compute_fee_arbitrumWithFallback(chain, osenv, env) ==
    Bind(resolve_rpc_url(chain, osenv), LAMBDA url :
    IF ~url.ok THEN [res |-> url, calls |-> <<>>] ELSE
    Bind(_estimate_gas(env, url.val, _build_tx_payload, <<chain.native_gas_limit>>), LAMBDA g :
    IF ~g.res.ok THEN g ELSE
    Bind(_effective_gas_price(env, url.val), LAMBDA p :
    IF ~p.res.ok THEN [res |-> p.res, calls |-> g.calls \o p.calls] ELSE
    LET gas_used == g.res.val[1]
        gas_price == p.res.val[1]
    IN [res |-> Return(FeeComputation(gas_price, gas_used, gas_used * gas_price,
                                      "arbitrum:" \o p.res.val[3],
                                      _combine_notes(<<<<"estimateGas includes L1 buffer">>,
                                                       g.res.val[2], p.res.val[2]>>), 0)),
        calls |-> g.calls \o p.calls])))

_compute_fee_arbitrum(chain, osenv, env) ==
    Bind(resolve_rpc_url(chain, osenv), LAMBDA url :
    IF ~url.ok THEN [res |-> url, calls |-> <<>>] ELSE
    Bind(_estimate_gas(env, url.val, _build_tx_payload, <<>>), LAMBDA g :
    IF ~g.res.ok THEN g ELSE
    Bind(_effective_gas_price(env, url.val), LAMBDA p :
    IF ~p.res.ok THEN [res |-> p.res, calls |-> g.calls \o p.calls] ELSE
    LET gas_used == g.res.val[1]
        gas_price == p.res.val[1]
    IN [res |-> Return(FeeComputation(gas_price, gas_used, gas_used * gas_price,
                                      "arbitrum:" \o p.res.val[3],
                                      _combine_notes(<<<<"estimateGas includes L1 buffer">>,
                                                       g.res.val[2], p.res.val[2]>>), 0)),
        calls |-> g.calls \o p.calls])))

(* The transaction fields handed to rlp.encode.                            *)
_serialize_legacy_tx(chain, tx, gas_price, gas_limit) ==
    <<0, gas_price, gas_limit, tx.to, tx.value, tx.data, chain.chain_id, 0, 0>>

(* A variant of _optimism_l1_fee with one slip: a failure gives zero under  *)
(* the note of a successful oracle call.                                   *)
_optimism_l1_feeSilent(env, url, chain, tx, gas_price, gas_limit) ==
    LET raw_tx == _serialize_legacy_tx(chain, tx, gas_price, gas_limit)
        call_params == [to |-> OP_GAS_ORACLE,
                        data |-> [selector |-> "getL1Fee(bytes)", bytes |-> raw_tx]]
    IN Bind(Rpc(env, url, "eth_call", <<call_params, "latest">>), LAMBDA c :
       Bind(ResultInt(c.res), LAMBDA r :
            [res |-> IF r.ok THEN Return(<<r.val, <<"GasPriceOracle.getL1Fee">> >>)
                     ELSE Return(<<0, <<"GasPriceOracle.getL1Fee">> >>),
             calls |-> c.calls]))

_optimism_l1_fee(env, url, chain, tx, gas_price, gas_limit) ==
    LET raw_tx == _serialize_legacy_tx(chain, tx, gas_price, gas_limit)
        call_params == [to |-> OP_GAS_ORACLE,
                        data |-> [selector |-> "getL1Fee(bytes)", bytes |-> raw_tx]]
    IN Bind(Rpc(env, url, "eth_call", <<call_params, "latest">>), LAMBDA c :
       Bind(ResultInt(c.res), LAMBDA r :
            [res |-> IF r.ok THEN Return(<<r.val, <<"GasPriceOracle.getL1Fee">> >>)
                     ELSE Return(<<0, <<"optimism l1 fee fallback (" \o r.exc.cls \o ")">> >>),
             calls |-> c.calls]))

(* A variant of _compute_fee_optimism with one slip: the L1 fee is left    *)
(* out of the native fee.                                                  *)
_compute_fee_optimismNoL1(chain, osenv, env) ==
    Bind(resolve_rpc_url(chain, osenv), LAMBDA url :
    IF ~url.ok THEN [res |-> url, calls |-> <<>>] ELSE
    Bind(_estimate_gas(env, url.val, _build_tx_payload, <<>>), LAMBDA g :
    IF ~g.res.ok THEN g ELSE
    Bind(Rpc(env, url.val, "eth_gasPrice", <<>>), LAMBDA gas_price_resp :
    Bind(ResultInt(gas_price_resp.res), LAMBDA gp :
    IF ~gp.ok THEN [res |-> gp, calls |-> g.calls \o gas_price_resp.calls] ELSE
    Bind(_optimism_l1_fee(env, url.val, chain, _build_tx_payload, gp.val, g.res.val[1]),
         LAMBDA l1 :
    LET gas_used == g.res.val[1]
        gas_price == gp.val
        l1_fee == l1.res.val[1]
    IN [res |-> Return(FeeComputation(gas_price, gas_used, gas_used * gas_price,
                                      "optimism:l2+l1",
                                      _combine_notes(<<g.res.val[2], <<"eth_gasPrice">>,
                                                       l1.res.val[2]>>), l1_fee)),
        calls |-> g.calls \o gas_price_resp.calls \o l1.calls])))))

_compute_fee_optimism(chain, osenv, env) ==
    Bind(resolve_rpc_url(chain, osenv), LAMBDA url :
    IF ~url.ok THEN [res |-> url, calls |-> <<>>] ELSE
    Bind(_estimate_gas(env, url.val, _build_tx_payload, <<>>), LAMBDA g :
    IF ~g.res.ok THEN g ELSE
    Bind(Rpc(env, url.val, "eth_gasPrice", <<>>), LAMBDA gas_price_resp :
    Bind(ResultInt(gas_price_resp.res), LAMBDA gp :
    IF ~gp.ok THEN [res |-> gp, calls |-> g.calls \o gas_price_resp.calls] ELSE
    Bind(_optimism_l1_fee(env, url.val, chain, _build_tx_payload, gp.val, g.res.val[1]),
         LAMBDA l1 :
    LET gas_used == g.res.val[1]
        gas_price == gp.val
        l1_fee == l1.res.val[1]
    IN [res |-> Return(FeeComputation(gas_price, gas_used, gas_used * gas_price + l1_fee,
                                      "optimism:l2+l1",
                                      _combine_notes(<<g.res.val[2], <<"eth_gasPrice">>,
                                                       l1.res.val[2]>>), l1_fee)),
        calls |-> g.calls \o gas_price_resp.calls \o l1.calls])))))

(* lines 198-208: the gas estimate of the linea strategy.                  *)
(* A variant of LineaGas with one slip: the result is always decoded as a   *)
(* hex integer, an object with gasLimit is not looked into.                *)
LineaGasHexOnly(chain, env, url, tx) ==
    LET c == Rpc(env, url, "linea_estimateGas", <<tx>>)
        raw_result == IF c.res.ok THEN GetItem(c.res.val, "result") ELSE c.res
        gas_used == IF ~raw_result.ok THEN raw_result ELSE HexToInt(raw_result.val)
        g == _estimate_gas(env, url, tx, <<chain.native_gas_limit>>)
    IN IF gas_used.ok
       THEN [res |-> Return(<<gas_used.val, <<"linea_estimateGas">> >>), calls |-> c.calls]
       ELSE [res |-> Return(<<g.res.val[1],
                              <<"fallback estimateGas (" \o gas_used.exc.cls \o ")">> >>),
             calls |-> c.calls \o g.calls]

LineaGas(chain, env, url, tx) ==
    Bind(Rpc(env, url, "linea_estimateGas", <<tx>>), LAMBDA c :
    Bind(IF c.res.ok THEN GetItem(c.res.val, "result") ELSE c.res, LAMBDA raw_result :
    Bind(IF ~raw_result.ok THEN raw_result
         ELSE IF raw_result.val.t = "dict" /\ "gasLimit" \in DOMAIN raw_result.val.f
              THEN HexToInt(raw_result.val.f["gasLimit"])
              ELSE HexToInt(raw_result.val), LAMBDA gas_used :
    IF gas_used.ok
    THEN [res |-> Return(<<gas_used.val, <<"linea_estimateGas">> >>), calls |-> c.calls]
    ELSE Bind(_estimate_gas(env, url, tx, <<chain.native_gas_limit>>), LAMBDA g :
              [res |-> Return(<<g.res.val[1],
                                <<"fallback estimateGas (" \o gas_used.exc.cls \o ")">> >>),
               calls |-> c.calls \o g.calls]))))

_compute_fee_linea(chain, osenv, env) ==
    Bind(resolve_rpc_url(chain, osenv), LAMBDA url :
    IF ~url.ok THEN [res |-> url, calls |-> <<>>] ELSE
    Bind(LineaGas(chain, env, url.val, _build_tx_payload), LAMBDA g :
    Bind(_effective_gas_price(env, url.val), LAMBDA p :
    IF ~p.res.ok THEN [res |-> p.res, calls |-> g.calls \o p.calls] ELSE
    LET gas_used == g.res.val[1]
        gas_price == p.res.val[1]
    IN [res |-> Return(FeeComputation(gas_price, gas_used, gas_used * gas_price,
                                      "linea:" \o p.res.val[3],
                                      _combine_notes(<<g.res.val[2], p.res.val[2]>>), 0)),
        calls |-> g.calls \o p.calls])))

(* A variant of Lower with one slip: the tag is compared as written.        *)
LowerAsWritten(s) == s

(* str.lower() on the fee-model tags that occur in configurations.         *)
Lower(s) ==
    CASE s = "Optimism" -> "optimism"
      [] s = "OPTIMISM" -> "optimism"
      [] s = "Arbitrum" -> "arbitrum"
      [] s = "Linea" -> "linea"
      [] s = "L1" -> "l1"
      [] OTHER -> s

_compute_fee(chain, osenv, env) ==
    LET model == Lower(IF chain.fee_model = "" THEN "l1" ELSE chain.fee_model)
    IN IF model = "optimism" THEN _compute_fee_optimism(chain, osenv, env)
       ELSE IF model = "arbitrum" THEN _compute_fee_arbitrum(chain, osenv, env)
       ELSE IF model = "linea" THEN _compute_fee_linea(chain, osenv, env)
       ELSE _compute_fee_l1(chain, osenv, env)

(***************************************************************************)
(* gas.py: rendering.                                                      *)
(***************************************************************************)
Pow10(k) == <<1, 10, 100, 1000, 10000, 100000, 1000000, 10000000, 100000000>>[k + 1]

(* n / 10^k rounded half up, for n >= 0, in steps that stay in range.      *)
RECURSIVE RoundDivPow10(_, _)
RoundDivPow10(n, k) ==
    IF k > 5 THEN RoundDivPow10(n \div Pow10(k - 5), 5)
    ELSE (n \div Pow10(k)) + (IF 2 * (n % Pow10(k)) >= Pow10(k) THEN 1 ELSE 0)

NumDigits(n) ==
    IF n < 10 THEN 1 ELSE IF n < 100 THEN 2 ELSE IF n < 1000 THEN 3 ELSE IF n < 10000 THEN 4
    ELSE IF n < 100000 THEN 5 ELSE IF n < 1000000 THEN 6 ELSE IF n < 10000000 THEN 7 ELSE 8

(* n in decimal, left-padded with zeros to width digits (n < 10^width).    *)
ZeroPad(n, width) ==
    <<"", "0", "00", "000", "0000", "00000", "000000", "0000000">>[width - NumDigits(n) + 1]
        \o ToString(n)

(* _format_decimal(Decimal(n) / 10^unit, digits)                           *)
_format_decimal(n, unit, digits) ==
    LET quantized == RoundDivPow10(n, unit - digits)
    IN ToString(quantized \div Pow10(digits)) \o "." \o ZeroPad(quantized % Pow10(digits), digits)

FeeSnapshot(chain, data, fetched_at) ==
    [t |-> "FeeSnapshot", chain |-> chain, data |-> data, fetched_at |-> fetched_at]

ChainIdentity(chain) ==
    [key |-> chain.key, display_name |-> chain.display_name, symbol |-> chain.symbol,
     chain_id |-> chain.chain_id]

(* A variant of Erc20FeeWei with one slip: the L1 share is truncated.      *)
Erc20FeeWeiTruncated(snapshot) ==
    LET base == snapshot.data.gas_price_wei * snapshot.chain.erc20_gas_limit
    IN IF snapshot.data.l1_fee_wei # 0 /\ snapshot.data.gas_used # 0
       THEN base + ((snapshot.data.l1_fee_wei * snapshot.chain.erc20_gas_limit)
                    \div snapshot.data.gas_used)
       ELSE base

Erc20FeeWei(snapshot) ==
    LET base == snapshot.data.gas_price_wei * snapshot.chain.erc20_gas_limit
    IN IF snapshot.data.l1_fee_wei # 0 /\ snapshot.data.gas_used # 0
       THEN base + ((2 * snapshot.data.l1_fee_wei * snapshot.chain.erc20_gas_limit
                     + snapshot.data.gas_used) \div (2 * snapshot.data.gas_used))
       ELSE base

as_payload(snapshot) ==
    [chain |-> ChainIdentity(snapshot.chain),
     gas_price |-> [wei |-> snapshot.data.gas_price_wei,
                    gwei |-> _format_decimal(snapshot.data.gas_price_wei, 9, 4)],
     gas_limit |-> snapshot.data.gas_used,
     native_fee |-> [wei |-> snapshot.data.native_fee_wei,
                     formatted |-> _format_decimal(snapshot.data.native_fee_wei, 18, 8)],
     erc20 |-> [gas_limit |-> snapshot.chain.erc20_gas_limit,
                token_symbol |-> snapshot.chain.erc20_token_symbol,
                fee |-> [wei |-> Erc20FeeWei(snapshot),
                         formatted |-> _format_decimal(Erc20FeeWei(snapshot), 18, 8)]],
     fetched_at |-> snapshot.fetched_at,
     mode |-> snapshot.data.mode,
     notes |-> snapshot.data.notes]

_error_payload(chain, message) ==
    [chain |-> ChainIdentity(chain),
     error |-> message,
     erc20 |-> [gas_limit |-> chain.erc20_gas_limit,
                token_symbol |-> chain.erc20_token_symbol,
                fee |-> [wei |-> None, formatted |-> None]]]

(* Every http(s) URL of the message becomes scheme://netloc/***.           *)
_sanitize_error_message(message) ==
    [i \in 1..Len(message) |->
        IF message[i].t = "url"
        THEN IF message[i].scheme = "" \/ message[i].netloc = ""
             THEN Text("[redacted]")
             ELSE Url(message[i].scheme, message[i].netloc, "/***")
        ELSE message[i]]

(* lines 115-121: the payload of a last-known-good snapshot.               *)
StalePayload(stale_snapshot, exc) ==
    LET payload == as_payload(stale_snapshot)
    IN [payload EXCEPT !.notes = _combine_notes(<<payload.notes,
                                                  <<"stale cache (" \o exc.cls \o ")">> >>)]
       @@ [stale |-> TRUE, debug_error |-> _sanitize_error_message(exc.msg)]

BoolInt(b) == IF b THEN 1 ELSE 0

(* A variant of _cache_key that leaves the precision flag out of the key.   *)
_cache_keyNoFlag(chain, precise, enable_precise_mode) ==
    chain.key \o ":" \o chain.fee_model \o ":" \o ToString(BoolInt(FALSE))

_cache_key(chain, precise, enable_precise_mode) ==
    chain.key \o ":" \o chain.fee_model \o ":" \o ToString(BoolInt(precise /\ enable_precise_mode))

CacheKeys == {_cache_key(c, p, TRUE) : c \in Chains, p \in BOOLEAN}

(***************************************************************************)
(* cachetools.TTLCache(maxsize=64, ttl): an entry is visible while         *)
(* time < expires; __setitem__ first drops the expired entries.  The       *)
(* capacity of 64 exceeds the number of keys, no capacity eviction occurs. *)
(***************************************************************************)
TtlLive(cache, key, time) == cache[key] # None /\ time < cache[key].expires

(* A variant of TtlGet with one slip: entries never expire.                 *)
TtlGetNoExpiry(cache, key, time) == IF cache[key] # None THEN cache[key].value ELSE None

TtlGet(cache, key, time) == IF TtlLive(cache, key, time) THEN cache[key].value ELSE None

TtlPop(cache, key, time) == IF TtlLive(cache, key, time) THEN [cache EXCEPT ![key] = None] ELSE cache

TtlSet(cache, key, value, time) ==
    [k \in DOMAIN cache |->
        IF k = key THEN [t |-> "entry", value |-> value, expires |-> time + cache_ttl_seconds]
        ELSE IF TtlLive(cache, k, time) THEN cache[k] ELSE None]

(***************************************************************************)
(* The environment of a computation: what os.getenv returns and what the   *)
(* node answers to each method.                                            *)
(***************************************************************************)
RpcUrl == Url("https", "rpc.test", "/v3/secret-key")

OsEnvs == {[rpc |-> RpcUrl, project_id |-> None], [rpc |-> None, project_id |-> None]}

Hex21248 == JHex(<<5, 3, 0, 0>>)

FeeHistoryResult ==
    JDict([baseFeePerGas |-> JList(<<JHex(<<3>>), JHex(<<3>>)>>),
           reward |-> JList(<<JList(<<JHex(<<2>>)>>), JList(<<JHex(<<2>>)>>)>>)])

NodeScripts ==
    [eth_estimateGas |-> {<<OkResult(Hex21248)>>},
     eth_feeHistory |-> {<<OkResult(FeeHistoryResult)>>, <<ErrorObject("method not found")>>},
     eth_maxPriorityFeePerGas |-> {<<OkResult(JHex(<<2>>))>>},
     eth_gasPrice |-> {<<OkResult(JHex(<<4>>))>>, <<NoResult>>, <<HttpText(503)>>},
     eth_call |-> {<<OkResult(JHex(<<6, 4>>))>>, <<ErrorObject("execution reverted")>>},
     linea_estimateGas |-> {<<OkResult(JDict([gasLimit |-> Hex21248]))>>}]

Envs ==
    {[eth_estimateGas |-> a, eth_feeHistory |-> b, eth_maxPriorityFeePerGas |-> c,
      eth_gasPrice |-> d, eth_call |-> e, linea_estimateGas |-> f] :
        a \in NodeScripts.eth_estimateGas, b \in NodeScripts.eth_feeHistory,
        c \in NodeScripts.eth_maxPriorityFeePerGas, d \in NodeScripts.eth_gasPrice,
        e \in NodeScripts.eth_call, f \in NodeScripts.linea_estimateGas}

(* What a computation for a chain can come to, over all environments.      *)
ComputeOutcomes == [c \in Chains |-> {_compute_fee(c, o, e) : o \in OsEnvs, e \in Envs}]

(* The chains the dashboard is asked about.                                *)
RequestedChains == {c \in Chains : c.key \in {"ethereum", "optimism"}}

(***************************************************************************)
(* config.py get_beefy_vaults: the vaults of the deployment.  The settings *)
(* class is not part of the sources at hand; its fields are those that     *)
(* beefy.py reads, its values those of tests/test_beefy_actions.py.        *)
(***************************************************************************)
BeefyVaultSettings(key, name, chain_key, withdraw_gas_limit, notes) ==
    [key |-> key, display_name |-> name, chain_key |-> chain_key,
     withdraw_gas_limit |-> withdraw_gas_limit, notes |-> notes]

BeefyVaults ==
    <<BeefyVaultSettings("btcb-wavax-clm", "BTC.b-WAVAX CLM Vault", "ethereum", 1626385,
                         <<"reference withdraw">>),
      BeefyVaultSettings("op-clm", "OP CLM Vault", "optimism", 1626385, <<>>),
      BeefyVaultSettings("avax-clm", "AVAX CLM Vault", "avalanche", 1626385, <<>>)>>

VaultKeys == {BeefyVaults[i].key : i \in 1..Len(BeefyVaults)}

(***************************************************************************)
(* State.                                                                  *)
(***************************************************************************)
VARIABLES
    now,                  \* time.time() and the cache timer, in seconds
    enable_precise_mode,  \* settings.enable_precise_mode
    fee_cache,            \* _fee_cache: key -> None or [value, expires]
    stale_cache,          \* _stale_cache: key -> None or snapshot
    task,                 \* the get_chain_fee coroutines suspended in _compute_fee
    calls_started,        \* number of get_chain_fee calls made so far
    returned,             \* the call that returned last: its arguments, locals and result
    request,              \* the GET /fees request being served: its jobs and its response
    rpc_call,             \* the call_rpc invocation under study: its arguments and result
    evaluated,            \* the function application under study: its arguments and result
    vault_cache           \* beefy.py _vault_cache: vault key -> None or [value, expires]

vars == <<now, enable_precise_mode, fee_cache, stale_cache, task, calls_started, returned,
          request, rpc_call, evaluated, vault_cache>>

Tasks == 1..NumTasks

(* The frame of a call: arguments, locals, and what the call has done.     *)
IdleTask ==
    [pc |-> "idle", chain |-> None, force_refresh |-> FALSE,
     cache_key |-> "", stale_snapshot |-> None,
     live_at_start |-> None,   \* the live primary snapshot when the call began
     stale_read |-> FALSE,     \* line 109 has read _stale_cache
     started |-> 0,            \* the time the call began
     raced |-> FALSE,          \* another call stored this key while this one was suspended
     outcome |-> None,         \* what _compute_fee came to, if it ran
     snapshot |-> None,        \* the snapshot the call rendered fresh, if any
     secondary |-> None,       \* _stale_cache[cache_key] as the call returned
     result |-> None]

Init ==
    /\ now = 0
    /\ enable_precise_mode = FALSE
    /\ fee_cache = [k \in CacheKeys |-> None]
    /\ stale_cache = [k \in CacheKeys |-> None]
    /\ task = [t \in Tasks |-> IdleTask]
    /\ calls_started = 0
    /\ returned = None
    /\ request = None
    /\ rpc_call = None
    /\ evaluated = None
    /\ vault_cache = [k \in VaultKeys |-> None]

Returned(payload) == [t |-> "returned", payload |-> payload]

Raised(exc) == [t |-> "raised", exc |-> exc]

(* Variants of GetChainFeeStart, each with one slip.                       *)
(* The lookup of line 105 is skipped: every call computes.                 *)
GetChainFeeStartNoLookup(t, chain, precise, force_refresh) ==
    LET cache_key == _cache_key(chain, precise, enable_precise_mode)
        popped == IF force_refresh THEN TtlPop(fee_cache, cache_key, now) ELSE fee_cache
        call == [IdleTask EXCEPT !.chain = chain,
                                 !.force_refresh = force_refresh, !.cache_key = cache_key,
                                 !.started = now,
                                 !.live_at_start = TtlGet(fee_cache, cache_key, now)]
    IN /\ task[t].pc = "idle"
       /\ \A u \in DOMAIN task : u < t => task[u].pc # "idle"
       /\ calls_started < MaxCalls
       /\ calls_started' = calls_started + 1
       /\ fee_cache' = popped
       /\ task' = [task EXCEPT ![t] = [call EXCEPT !.pc = "computing",
                                                   !.stale_snapshot = stale_cache[cache_key],
                                                   !.stale_read = TRUE]]
       /\ UNCHANGED <<now, enable_precise_mode, stale_cache, returned>>

(* The eviction of lines 103-104 is skipped.                               *)
GetChainFeeStartNoEvict(t, chain, precise, force_refresh) ==
    LET cache_key == _cache_key(chain, precise, enable_precise_mode)
        snapshot == TtlGet(fee_cache, cache_key, now)
        call == [IdleTask EXCEPT !.chain = chain,
                                 !.force_refresh = force_refresh, !.cache_key = cache_key,
                                 !.started = now,
                                 !.live_at_start = TtlGet(fee_cache, cache_key, now)]
    IN /\ task[t].pc = "idle"
       /\ \A u \in DOMAIN task : u < t => task[u].pc # "idle"
       /\ calls_started < MaxCalls
       /\ calls_started' = calls_started + 1
       /\ UNCHANGED fee_cache
       /\ IF snapshot # None
          THEN /\ returned' = [call EXCEPT !.pc = "done", !.snapshot = snapshot,
                                           !.secondary = stale_cache[cache_key],
                                           !.result = Returned(as_payload(snapshot))]
               /\ UNCHANGED task
          ELSE /\ task' = [task EXCEPT ![t] = [call EXCEPT !.pc = "computing",
                                                           !.stale_snapshot = stale_cache[cache_key],
                                                           !.stale_read = TRUE]]
               /\ UNCHANGED returned
       /\ UNCHANGED <<now, enable_precise_mode, stale_cache>>

(* A hit stamps the payload with the time of the hit.                      *)
GetChainFeeStartRestamp(t, chain, precise, force_refresh) ==
    LET cache_key == _cache_key(chain, precise, enable_precise_mode)
        popped == IF force_refresh THEN TtlPop(fee_cache, cache_key, now) ELSE fee_cache
        snapshot == TtlGet(popped, cache_key, now)
        call == [IdleTask EXCEPT !.chain = chain,
                                 !.force_refresh = force_refresh, !.cache_key = cache_key,
                                 !.started = now,
                                 !.live_at_start = TtlGet(fee_cache, cache_key, now)]
    IN /\ task[t].pc = "idle"
       /\ \A u \in DOMAIN task : u < t => task[u].pc # "idle"
       /\ calls_started < MaxCalls
       /\ calls_started' = calls_started + 1
       /\ fee_cache' = popped
       /\ IF snapshot # None
          THEN /\ returned' = [call EXCEPT !.pc = "done", !.snapshot = snapshot,
                                           !.secondary = stale_cache[cache_key],
                                           !.result = Returned(as_payload(
                                               [snapshot EXCEPT !.fetched_at = now]))]
               /\ UNCHANGED task
          ELSE /\ task' = [task EXCEPT ![t] = [call EXCEPT !.pc = "computing",
                                                           !.stale_snapshot = stale_cache[cache_key],
                                                           !.stale_read = TRUE]]
               /\ UNCHANGED returned
       /\ UNCHANGED <<now, enable_precise_mode, stale_cache>>

(* force_refresh also drops the last-known-good entry.                     *)
GetChainFeeStartEvictBoth(t, chain, precise, force_refresh) ==
    LET cache_key == _cache_key(chain, precise, enable_precise_mode)
        popped == IF force_refresh THEN TtlPop(fee_cache, cache_key, now) ELSE fee_cache
        dropped == IF force_refresh THEN [stale_cache EXCEPT ![cache_key] = None] ELSE stale_cache
        snapshot == TtlGet(popped, cache_key, now)
        call == [IdleTask EXCEPT !.chain = chain,
                                 !.force_refresh = force_refresh, !.cache_key = cache_key,
                                 !.started = now,
                                 !.live_at_start = TtlGet(fee_cache, cache_key, now)]
    IN /\ task[t].pc = "idle"
       /\ \A u \in DOMAIN task : u < t => task[u].pc # "idle"
       /\ calls_started < MaxCalls
       /\ calls_started' = calls_started + 1
       /\ fee_cache' = popped
       /\ stale_cache' = dropped
       /\ IF snapshot # None
          THEN /\ returned' = [call EXCEPT !.pc = "done", !.snapshot = snapshot,
                                           !.secondary = dropped[cache_key],
                                           !.result = Returned(as_payload(snapshot))]
               /\ UNCHANGED task
          ELSE /\ task' = [task EXCEPT ![t] = [call EXCEPT !.pc = "computing",
                                                           !.stale_snapshot = dropped[cache_key],
                                                           !.stale_read = TRUE]]
               /\ UNCHANGED returned
       /\ UNCHANGED <<now, enable_precise_mode>>

(* get_chain_fee, lines 102-109: up to the await of the computation; a     *)
(* cache hit returns at once.                                              *)
(* A call for a key that another call is computing does not compute.       *)
GetChainFeeStartCoalesce(t, chain, precise, force_refresh) ==
    LET cache_key == _cache_key(chain, precise, enable_precise_mode)
        popped == IF force_refresh THEN TtlPop(fee_cache, cache_key, now) ELSE fee_cache
        snapshot == TtlGet(popped, cache_key, now)
        busy == \E u \in DOMAIN task : task[u].pc = "computing" /\ task[u].cache_key = cache_key
        call == [IdleTask EXCEPT !.chain = chain,
                                 !.force_refresh = force_refresh, !.cache_key = cache_key,
                                 !.started = now,
                                 !.live_at_start = TtlGet(fee_cache, cache_key, now)]
    IN /\ task[t].pc = "idle"
       /\ \A u \in DOMAIN task : u < t => task[u].pc # "idle"
       /\ calls_started < MaxCalls
       /\ calls_started' = calls_started + 1
       /\ fee_cache' = popped
       /\ IF snapshot # None \/ busy
          THEN /\ returned' = [call EXCEPT !.pc = "done", !.snapshot = snapshot,
                                           !.secondary = stale_cache[cache_key],
                                           !.result =
                                              IF snapshot # None
                                              THEN Returned(as_payload(snapshot))
                                              ELSE Returned(_error_payload(chain, <<Text("busy")>>))]
               /\ UNCHANGED task
          ELSE /\ task' = [task EXCEPT ![t] = [call EXCEPT !.pc = "computing",
                                                           !.stale_snapshot = stale_cache[cache_key],
                                                           !.stale_read = TRUE]]
               /\ UNCHANGED returned
       /\ UNCHANGED <<now, enable_precise_mode, stale_cache>>

GetChainFeeStart(t, chain, precise, force_refresh) ==
    LET cache_key == _cache_key(chain, precise, enable_precise_mode)
        popped == IF force_refresh THEN TtlPop(fee_cache, cache_key, now) ELSE fee_cache
        snapshot == TtlGet(popped, cache_key, now)
        call == [IdleTask EXCEPT !.chain = chain,
                                 !.force_refresh = force_refresh, !.cache_key = cache_key,
                                 !.started = now,
                                 !.live_at_start = TtlGet(fee_cache, cache_key, now)]
    IN /\ task[t].pc = "idle"
       /\ \A u \in DOMAIN task : u < t => task[u].pc # "idle"
       /\ calls_started < MaxCalls
       /\ calls_started' = calls_started + 1
       /\ fee_cache' = popped
       /\ IF snapshot # None
          THEN /\ returned' = [call EXCEPT !.pc = "done", !.snapshot = snapshot,
                                           !.secondary = stale_cache[cache_key],
                                           !.result = Returned(as_payload(snapshot))]
               /\ UNCHANGED task
          ELSE /\ task' = [task EXCEPT ![t] = [call EXCEPT !.pc = "computing",
                                                           !.stale_snapshot = stale_cache[cache_key],
                                                           !.stale_read = TRUE]]
               /\ UNCHANGED returned
       /\ UNCHANGED <<now, enable_precise_mode, stale_cache>>

(* A variant of Caught with one slip: except RPCError only.                *)
CaughtRpcErrorOnly(exc) == exc.cls = "RPCError"

(* except (RPCError, httpx.HTTPError)                                      *)
Caught(exc) == exc.cls = "RPCError" \/ exc.cls \in HTTPErrorClasses

(* Variants of GetChainFeeFinish, each with one slip.                      *)
(* A success is stored in the primary cache only.                          *)
GetChainFeeFinishPrimaryOnly(t, outcome) ==
    LET me == task[t]
        snapshot == FeeSnapshot(me.chain, outcome.res.val, now)
    IN /\ me.pc = "computing"
       /\ IF outcome.res.ok
          THEN /\ fee_cache' = TtlSet(fee_cache, me.cache_key, snapshot, now)
               /\ UNCHANGED stale_cache
               /\ returned' = [me EXCEPT !.pc = "done", !.outcome = outcome,
                                         !.snapshot = snapshot,
                                         !.secondary = stale_cache[me.cache_key],
                                         !.result = Returned(as_payload(snapshot))]
               /\ task' = [u \in DOMAIN task |->
                             IF u = t THEN IdleTask
                             ELSE IF task[u].pc = "computing" /\ task[u].cache_key = me.cache_key
                                  THEN [task[u] EXCEPT !.raced = TRUE]
                                  ELSE task[u]]
          ELSE /\ UNCHANGED <<fee_cache, stale_cache>>
               /\ task' = [task EXCEPT ![t] = IdleTask]
               /\ returned' =
                     [me EXCEPT !.pc = "done", !.outcome = outcome,
                                !.secondary = stale_cache[me.cache_key],
                                !.result =
                                   IF Caught(outcome.res.exc)
                                   THEN IF me.stale_snapshot # None
                                        THEN Returned(StalePayload(me.stale_snapshot,
                                                                   outcome.res.exc))
                                        ELSE Returned(_error_payload(me.chain,
                                                                     outcome.res.exc.msg))
                                   ELSE Raised(outcome.res.exc)]
       /\ UNCHANGED <<now, enable_precise_mode, calls_started>>

(* A failure that falls back to the last-known-good snapshot puts it back  *)
(* into the primary cache.                                                 *)
GetChainFeeFinishRecache(t, outcome) ==
    LET me == task[t]
        snapshot == FeeSnapshot(me.chain, outcome.res.val, now)
    IN /\ me.pc = "computing"
       /\ IF outcome.res.ok
          THEN /\ fee_cache' = TtlSet(fee_cache, me.cache_key, snapshot, now)
               /\ stale_cache' = [stale_cache EXCEPT ![me.cache_key] = snapshot]
               /\ returned' = [me EXCEPT !.pc = "done", !.outcome = outcome,
                                         !.snapshot = snapshot, !.secondary = snapshot,
                                         !.result = Returned(as_payload(snapshot))]
               /\ task' = [u \in DOMAIN task |->
                             IF u = t THEN IdleTask
                             ELSE IF task[u].pc = "computing" /\ task[u].cache_key = me.cache_key
                                  THEN [task[u] EXCEPT !.raced = TRUE]
                                  ELSE task[u]]
          ELSE /\ fee_cache' = IF Caught(outcome.res.exc) /\ me.stale_snapshot # None
                               THEN TtlSet(fee_cache, me.cache_key, me.stale_snapshot, now)
                               ELSE fee_cache
               /\ UNCHANGED stale_cache
               /\ task' = [task EXCEPT ![t] = IdleTask]
               /\ returned' =
                     [me EXCEPT !.pc = "done", !.outcome = outcome,
                                !.secondary = stale_cache[me.cache_key],
                                !.result =
                                   IF Caught(outcome.res.exc)
                                   THEN IF me.stale_snapshot # None
                                        THEN Returned(StalePayload(me.stale_snapshot,
                                                                   outcome.res.exc))
                                        ELSE Returned(_error_payload(me.chain,
                                                                     outcome.res.exc.msg))
                                   ELSE Raised(outcome.res.exc)]
       /\ UNCHANGED <<now, enable_precise_mode, calls_started>>

(* get_chain_fee, lines 111-127: _compute_fee has come to outcome.         *)
(* A success keeps the fetched_at of the snapshot it replaces in the        *)
(* secondary store.                                                        *)
GetChainFeeFinishMixed(t, outcome) ==
    LET me == task[t]
        snapshot == FeeSnapshot(me.chain, outcome.res.val, now)
        old == stale_cache[me.cache_key]
    IN /\ me.pc = "computing"
       /\ IF outcome.res.ok
          THEN /\ fee_cache' = TtlSet(fee_cache, me.cache_key, snapshot, now)
               /\ stale_cache' = [stale_cache EXCEPT ![me.cache_key] =
                                     IF old = None THEN snapshot
                                     ELSE [snapshot EXCEPT !.fetched_at = old.fetched_at]]
               /\ returned' = [me EXCEPT !.pc = "done", !.outcome = outcome,
                                         !.snapshot = snapshot, !.secondary = snapshot,
                                         !.result = Returned(as_payload(snapshot))]
               /\ task' = [u \in DOMAIN task |->
                             IF u = t THEN IdleTask
                             ELSE IF task[u].pc = "computing" /\ task[u].cache_key = me.cache_key
                                  THEN [task[u] EXCEPT !.raced = TRUE]
                                  ELSE task[u]]
          ELSE /\ UNCHANGED <<fee_cache, stale_cache>>
               /\ task' = [task EXCEPT ![t] = IdleTask]
               /\ returned' =
                     [me EXCEPT !.pc = "done", !.outcome = outcome,
                                !.secondary = stale_cache[me.cache_key],
                                !.result =
                                   IF Caught(outcome.res.exc)
                                   THEN IF me.stale_snapshot # None
                                        THEN Returned(StalePayload(me.stale_snapshot,
                                                                   outcome.res.exc))
                                        ELSE Returned(_error_payload(me.chain,
                                                                     outcome.res.exc.msg))
                                   ELSE Raised(outcome.res.exc)]
       /\ UNCHANGED <<now, enable_precise_mode, calls_started>>

(* The secondary store keeps the first snapshot it was given.              *)
GetChainFeeFinishKeepFirst(t, outcome) ==
    LET me == task[t]
        snapshot == FeeSnapshot(me.chain, outcome.res.val, now)
    IN /\ me.pc = "computing"
       /\ IF outcome.res.ok
          THEN /\ fee_cache' = TtlSet(fee_cache, me.cache_key, snapshot, now)
               /\ stale_cache' = IF stale_cache[me.cache_key] = None
                                 THEN [stale_cache EXCEPT ![me.cache_key] = snapshot]
                                 ELSE stale_cache
               /\ returned' = [me EXCEPT !.pc = "done", !.outcome = outcome,
                                         !.snapshot = snapshot,
                                         !.secondary = stale_cache'[me.cache_key],
                                         !.result = Returned(as_payload(snapshot))]
               /\ task' = [u \in DOMAIN task |->
                             IF u = t THEN IdleTask
                             ELSE IF task[u].pc = "computing" /\ task[u].cache_key = me.cache_key
                                  THEN [task[u] EXCEPT !.raced = TRUE]
                                  ELSE task[u]]
          ELSE /\ UNCHANGED <<fee_cache, stale_cache>>
               /\ task' = [task EXCEPT ![t] = IdleTask]
               /\ returned' =
                     [me EXCEPT !.pc = "done", !.outcome = outcome,
                                !.secondary = stale_cache[me.cache_key],
                                !.result =
                                   IF Caught(outcome.res.exc)
                                   THEN IF me.stale_snapshot # None
                                        THEN Returned(StalePayload(me.stale_snapshot,
                                                                   outcome.res.exc))
                                        ELSE Returned(_error_payload(me.chain,
                                                                     outcome.res.exc.msg))
                                   ELSE Raised(outcome.res.exc)]
       /\ UNCHANGED <<now, enable_precise_mode, calls_started>>

GetChainFeeFinish(t, outcome) ==
    LET me == task[t]
        snapshot == FeeSnapshot(me.chain, outcome.res.val, now)
    IN /\ me.pc = "computing"
       /\ IF outcome.res.ok
          THEN /\ fee_cache' = TtlSet(fee_cache, me.cache_key, snapshot, now)
               /\ stale_cache' = [stale_cache EXCEPT ![me.cache_key] = snapshot]
               /\ returned' = [me EXCEPT !.pc = "done", !.outcome = outcome,
                                         !.snapshot = snapshot, !.secondary = snapshot,
                                         !.result = Returned(as_payload(snapshot))]
               /\ task' = [u \in DOMAIN task |->
                             IF u = t THEN IdleTask
                             ELSE IF task[u].pc = "computing" /\ task[u].cache_key = me.cache_key
                                  THEN [task[u] EXCEPT !.raced = TRUE]
                                  ELSE task[u]]
          ELSE /\ UNCHANGED <<fee_cache, stale_cache>>
               /\ task' = [task EXCEPT ![t] = IdleTask]
               /\ returned' =
                     [me EXCEPT !.pc = "done", !.outcome = outcome,
                                !.secondary = stale_cache[me.cache_key],
                                !.result =
                                   IF Caught(outcome.res.exc)
                                   THEN IF me.stale_snapshot # None
                                        THEN Returned(StalePayload(me.stale_snapshot,
                                                                   outcome.res.exc))
                                        ELSE Returned(_error_payload(me.chain,
                                                                     outcome.res.exc.msg))
                                   ELSE Raised(outcome.res.exc)]
       /\ UNCHANGED <<now, enable_precise_mode, calls_started>>

Start(t) ==
    /\ \E chain \in RequestedChains, precise \in BOOLEAN, force_refresh \in BOOLEAN :
          GetChainFeeStart(t, chain, precise, force_refresh)
    /\ UNCHANGED <<request, rpc_call, evaluated, vault_cache>>

Complete(t) ==
    /\ task[t].pc = "computing"
    /\ \E outcome \in ComputeOutcomes[task[t].chain] : GetChainFeeFinish(t, outcome)
    /\ UNCHANGED <<request, rpc_call, evaluated, vault_cache>>

(* Time passes: just short of the TTL, or the whole TTL.                   *)
TickSteps == {cache_ttl_seconds - 1, cache_ttl_seconds}

Tick ==
    /\ \E d \in TickSteps :
          /\ now + d <= MaxTime
          /\ now' = now + d
    /\ UNCHANGED <<enable_precise_mode, fee_cache, stale_cache, task, calls_started, returned,
                   request, rpc_call, evaluated, vault_cache>>

Next ==
    \/ \E t \in Tasks : Start(t)
    \/ \E t \in Tasks : Complete(t)
    \/ Tick

Spec == Init /\ [][Next]_vars

(***************************************************************************)
(* The same calls under either setting of enable_precise_mode, for one     *)
(* chain: its two precision flags give the keys of interest.               *)
(***************************************************************************)
InitPrecise ==
    /\ now = 0
    /\ enable_precise_mode \in BOOLEAN
    /\ fee_cache = [k \in CacheKeys |-> None]
    /\ stale_cache = [k \in CacheKeys |-> None]
    /\ task = [t \in Tasks |-> IdleTask]
    /\ calls_started = 0
    /\ returned = None
    /\ request = None
    /\ rpc_call = None
    /\ evaluated = None
    /\ vault_cache = [k \in VaultKeys |-> None]

PreciseChains == {c \in Chains : c.key = "ethereum"}

StartPrecise(t) ==
    /\ \E chain \in PreciseChains, precise \in BOOLEAN, force_refresh \in BOOLEAN :
          GetChainFeeStart(t, chain, precise, force_refresh)
    /\ UNCHANGED <<request, rpc_call, evaluated, vault_cache>>

(* One way to fail, without any RPC call, and the plain way to succeed.    *)
PreciseOutcomes ==
    [c \in Chains |->
        {outcome \in ComputeOutcomes[c] :
            IF outcome.res.ok THEN outcome.res.val.mode = "l1:eip1559"
            ELSE outcome.calls = <<>>}]

CompletePrecise(t) ==
    /\ task[t].pc = "computing"
    /\ \E outcome \in PreciseOutcomes[task[t].chain] : GetChainFeeFinish(t, outcome)
    /\ UNCHANGED <<request, rpc_call, evaluated, vault_cache>>

NextPrecise ==
    \/ \E t \in Tasks : StartPrecise(t)
    \/ \E t \in Tasks : CompletePrecise(t)
    \/ Tick

SpecPrecise == InitPrecise /\ [][NextPrecise]_vars

(***************************************************************************)
(* routes/fees.py list_fees, lines 221-225: one get_chain_fee per          *)
(* configured chain, gathered.  The jobs run to their await one after the  *)
(* other before anything else runs, and return in any order.  gather       *)
(* without return_exceptions hands the first exception of a job to         *)
(* list_fees, which does not catch it.                                     *)
(***************************************************************************)
get_chains ==
    <<CHOOSE c \in Chains : c.key = "ethereum", CHOOSE c \in Chains : c.key = "optimism">>

Jobs == 1..Len(get_chains)

(* results[j] is what job j returned or raised, None until then;           *)
(* running[j] is the coroutine of job j while it is suspended.             *)
NewRequest(precise, force_refresh) ==
    [precise |-> precise, force_refresh |-> force_refresh, started |-> 0,
     running |-> [j \in Jobs |-> 0],
     results |-> [j \in Jobs |-> None],
     response |-> None]

AllStarted(r) == r.started = Len(get_chains)

AllDone(r) == \A j \in Jobs : r.results[j] # None

(* The await of asyncio.gather on the jobs, after job j ended with result.  *)
Gathered(r, j, result) ==
    LET done == [r EXCEPT !.running[j] = 0, !.results[j] = result]
    IN [done EXCEPT !.response =
           IF r.response # None THEN r.response
           ELSE IF result.t = "raised" THEN result
           ELSE IF AllDone(done)
                THEN Returned([i \in Jobs |-> done.results[i].payload])
                ELSE None]

ListFeesStart(precise, force_refresh) ==
    /\ IF request = None THEN TRUE ELSE AllDone(request)
    /\ calls_started + Len(get_chains) <= MaxCalls
    /\ request' = NewRequest(precise, force_refresh)
    /\ UNCHANGED <<now, enable_precise_mode, fee_cache, stale_cache, task, calls_started,
                   returned, rpc_call, evaluated, vault_cache>>

JobStart ==
    /\ request # None
    /\ ~AllStarted(request)
    /\ LET j == request.started + 1 IN
       \E t \in Tasks :
          /\ GetChainFeeStart(t, get_chains[j], request.precise, request.force_refresh)
          /\ request' = IF task' = task
                        THEN Gathered([request EXCEPT !.started = j], j, returned'.result)
                        ELSE [request EXCEPT !.started = j, !.running[j] = t]
    /\ UNCHANGED <<rpc_call, evaluated, vault_cache>>

JobComplete(t) ==
    /\ request # None
    /\ AllStarted(request)
    /\ \E j \in Jobs :
          /\ request.running[j] = t
          /\ \E outcome \in ComputeOutcomes[task[t].chain] : GetChainFeeFinish(t, outcome)
          /\ request' = Gathered(request, j, returned'.result)
    /\ UNCHANGED <<rpc_call, evaluated, vault_cache>>

ListTick ==
    /\ IF request = None THEN TRUE ELSE AllStarted(request)
    /\ Tick

NextList ==
    \/ \E precise \in BOOLEAN, force_refresh \in BOOLEAN : ListFeesStart(precise, force_refresh)
    \/ JobStart
    \/ \E t \in Tasks : JobComplete(t)
    \/ ListTick

SpecList == Init /\ [][NextList]_vars

(***************************************************************************)
(* The lookup-then-insert race of gas.py lines 105-125: calls for one key  *)
(* that all begin before any of them has returned.                         *)
(***************************************************************************)
RaceTasks == 1..NumRaceTasks

RaceChain == CHOOSE c \in Chains : c.key = "ethereum"

RaceKey == _cache_key(RaceChain, FALSE, FALSE)

InitRace ==
    /\ now = 0
    /\ enable_precise_mode = FALSE
    /\ fee_cache = [k \in CacheKeys |-> None]
    /\ stale_cache = [k \in CacheKeys |-> None]
    /\ task = [t \in RaceTasks |-> IdleTask]
    /\ calls_started = 0
    /\ returned = None
    /\ request = None
    /\ rpc_call = None
    /\ evaluated = None
    /\ vault_cache = [k \in VaultKeys |-> None]

RaceStart(t) ==
    /\ returned = None
    /\ \E force_refresh \in BOOLEAN : GetChainFeeStart(t, RaceChain, FALSE, force_refresh)
    /\ UNCHANGED <<request, rpc_call, evaluated, vault_cache>>

NextRace ==
    \/ \E t \in RaceTasks : RaceStart(t)
    \/ \E t \in RaceTasks : Complete(t)
    \/ Tick

SpecRace == InitRace /\ [][NextRace]_vars

(***************************************************************************)
(* rpc.py call_rpc on its own: one invocation against a node that answers  *)
(* the successive POSTs as a script says.                                  *)
(***************************************************************************)
ErrorNull == HttpJson(200, JDict([jsonrpc |-> JStr("2.0"), id |-> JInt(1), error |-> JNull]))

NonRetryableStatus == {404}

Responses ==
    {ConnFail(cls) : cls \in RequestErrorClasses}
    \cup {HttpText(status) : status \in RETRYABLE_STATUS \cup NonRetryableStatus}
    \cup {OkResult(JHex(<<4>>)), NoResult, ErrorObject("execution reverted"), ErrorNoMessage,
          ErrorNull}

RECURSIVE Scripts(_)
Scripts(n) ==
    IF n = 0 THEN {<<>>}
    ELSE {Append(script, resp) : script \in Scripts(n - 1), resp \in Responses}

Backoffs == {INITIAL_BACKOFF_MS, 3 * INITIAL_BACKOFF_MS}

RpcCalls ==
    [script : UNION {Scripts(n) : n \in 1..MaxScriptLen}, retries : 0..MaxRetries,
     initial_backoff : Backoffs, result : {None}]

InitRpc ==
    /\ now = 0
    /\ enable_precise_mode = FALSE
    /\ fee_cache = [k \in CacheKeys |-> None]
    /\ stale_cache = [k \in CacheKeys |-> None]
    /\ task = [t \in Tasks |-> IdleTask]
    /\ calls_started = 0
    /\ returned = None
    /\ request = None
    /\ rpc_call \in RpcCalls
    /\ evaluated = None
    /\ vault_cache = [k \in VaultKeys |-> None]

CallRpc ==
    /\ rpc_call.result = None
    /\ rpc_call' = [rpc_call EXCEPT !.result = call_rpc(rpc_call.script, RpcUrl, rpc_call.retries,
                                                         rpc_call.initial_backoff)]
    /\ UNCHANGED <<now, enable_precise_mode, fee_cache, stale_cache, task, calls_started,
                   returned, request, evaluated, vault_cache>>

NextRpc == CallRpc

SpecRpc == InitRpc /\ [][NextRpc]_vars

(***************************************************************************)
(* get_chain_fee, one call after the other, against nodes that are         *)
(* unavailable for a while: each method answers 503 a number of times and  *)
(* then answers as a healthy node does.                                    *)
(***************************************************************************)
FeeHistoryNoReward == JDict([baseFeePerGas |-> JList(<<JHex(<<3>>), JHex(<<3>>)>>)])

(* The answers of a healthy node, with or without rewards in feeHistory.   *)
HealthyAnswer(reward) ==
    [eth_estimateGas |-> OkResult(Hex21248),
     eth_feeHistory |-> OkResult(IF reward THEN FeeHistoryResult ELSE FeeHistoryNoReward),
     eth_maxPriorityFeePerGas |-> OkResult(JHex(<<2>>)),
     eth_gasPrice |-> OkResult(JHex(<<4>>)),
     eth_call |-> OkResult(JHex(<<6, 4>>)),
     linea_estimateGas |-> OkResult(JDict([gasLimit |-> Hex21248]))]

Methods == DOMAIN HealthyAnswer(TRUE)

(* k answers 503, then the healthy answer.                                 *)
Unavailable(k, answer) == [i \in 1..(k + 1) |-> IF i <= k THEN HttpText(503) ELSE answer]

(* How many times each method answers 503: all alike, staggered within the *)
(* retry budget, or one method beyond the budget.                          *)
Outages ==
    {[m \in Methods |-> k] : k \in 0..(DEFAULT_RETRIES + 1)}
    \cup {[m \in Methods |-> IF m \in {"eth_estimateGas", "eth_gasPrice", "eth_call"}
                             THEN DEFAULT_RETRIES ELSE DEFAULT_RETRIES - 1]}
    \cup {[m \in Methods |-> IF m = down THEN DEFAULT_RETRIES + 1 ELSE 0] : down \in Methods}

ProjectId == Text("project-id")

WorldOsEnvs ==
    {[rpc |-> RpcUrl, project_id |-> None], [rpc |-> RpcUrl, project_id |-> ProjectId],
     [rpc |-> None, project_id |-> ProjectId], [rpc |-> Text(""), project_id |-> Text("")]}

NoOutage == [m \in Methods |-> 0]

(* Every endpoint configuration with a healthy node, and every outage      *)
(* with the endpoint configured.                                           *)
Worlds ==
    [osenv : WorldOsEnvs, outage : {NoOutage}, reward : {TRUE}]
    \cup [osenv : {[rpc |-> RpcUrl, project_id |-> None]}, outage : Outages, reward : BOOLEAN]

EnvOf(world) ==
    [m \in Methods |-> Unavailable(world.outage[m], HealthyAnswer(world.reward)[m])]

(* What _compute_fee comes to in a world, with the world it ran in.        *)
WorldOutcome(chain, world) ==
    Bind(_compute_fee(chain, world.osenv, EnvOf(world)), LAMBDA o :
         [res |-> o.res, calls |-> o.calls, world |-> world])

WorldOutcomes == [c \in Chains |-> {WorldOutcome(c, w) : w \in Worlds}]

(* The same computation against a node that never answers 503.             *)
HealthyOutcome ==
    [c \in Chains |-> [o \in WorldOsEnvs |-> [reward \in BOOLEAN |->
        _compute_fee(c, o, [m \in Methods |-> <<HealthyAnswer(reward)[m]>>])]]]

(* One chain is called again and again, no two calls at once.              *)
StartAlone(t) ==
    /\ \A u \in Tasks : task[u].pc = "idle"
    /\ \E chain \in Chains, force_refresh \in BOOLEAN :
          /\ IF returned = None THEN TRUE ELSE returned.chain = chain
          /\ GetChainFeeStart(t, chain, FALSE, force_refresh)
    /\ UNCHANGED <<request, rpc_call, evaluated, vault_cache>>

CompleteInWorld(t) ==
    /\ task[t].pc = "computing"
    /\ \E outcome \in WorldOutcomes[task[t].chain] : GetChainFeeFinish(t, outcome)
    /\ UNCHANGED <<request, rpc_call, evaluated, vault_cache>>

NextOutage ==
    \/ \E t \in Tasks : StartAlone(t)
    \/ \E t \in Tasks : CompleteInWorld(t)
    \/ Tick

SpecOutage == Init /\ [][NextOutage]_vars

(***************************************************************************)
(* Functions on their own: one application, its arguments drawn at the     *)
(* start, everything else at rest.                                         *)
(***************************************************************************)
AtRest ==
    /\ now = 0
    /\ enable_precise_mode = FALSE
    /\ fee_cache = [k \in CacheKeys |-> None]
    /\ stale_cache = [k \in CacheKeys |-> None]
    /\ task = [t \in Tasks |-> IdleTask]
    /\ calls_started = 0
    /\ returned = None
    /\ request = None
    /\ rpc_call = None
    /\ vault_cache = [k \in VaultKeys |-> None]

RestUnchanged ==
    UNCHANGED <<now, enable_precise_mode, fee_cache, stale_cache, task, calls_started,
                returned, request, rpc_call, vault_cache>>

(* FeeSnapshot.as_payload on snapshots of an optimism-style computation,   *)
(* with or without an L1 fee, for every configured ERC-20 gas limit.       *)
RenderedChain(erc20_gas_limit) ==
    [(CHOOSE c \in Chains : c.key = "optimism") EXCEPT !.erc20_gas_limit = erc20_gas_limit]

RenderInputs ==
    {[snapshot |-> FeeSnapshot(RenderedChain(limit),
                               FeeComputation(price, used, used * price + l1, "optimism:l2+l1",
                                              <<"eth_estimateGas">>, l1),
                               0),
      payload |-> None] :
        limit \in 1..MaxGas, price \in 0..MaxFee, used \in 0..MaxGas, l1 \in 0..MaxFee}

InitRender == AtRest /\ evaluated \in RenderInputs

Render ==
    /\ evaluated.payload = None
    /\ evaluated' = [evaluated EXCEPT !.payload = as_payload(evaluated.snapshot)]
    /\ RestUnchanged

NextRender == Render

SpecRender == InitRender /\ [][NextRender]_vars

(***************************************************************************)
(* Endpoints that carry secrets: a key in the path, or credentials in the  *)
(* authority, which urlparse keeps as part of netloc.                      *)
(***************************************************************************)
UrlWithUserinfo(scheme, userinfo, host, rest) ==
    [t |-> "url", scheme |-> scheme, netloc |-> userinfo \o "@" \o host, rest |-> rest,
     userinfo |-> userinfo, host |-> host]

CredentialUrl == UrlWithUserinfo("https", "user:secret", "rpc.test", "/v3/secret-key")

SecretOsEnvs ==
    {[rpc |-> RpcUrl, project_id |-> None], [rpc |-> CredentialUrl, project_id |-> None],
     [rpc |-> None, project_id |-> ProjectId]}

SecretWorlds == [osenv : SecretOsEnvs, outage : Outages, reward : {TRUE}]

SecretOutcomes == [c \in Chains |-> {WorldOutcome(c, w) : w \in SecretWorlds}]

CompleteWithSecret(t) ==
    /\ task[t].pc = "computing"
    /\ \E outcome \in SecretOutcomes[task[t].chain] : GetChainFeeFinish(t, outcome)
    /\ UNCHANGED <<request, rpc_call, evaluated, vault_cache>>

NextSecret ==
    \/ \E t \in Tasks : StartAlone(t)
    \/ \E t \in Tasks : CompleteWithSecret(t)
    \/ Tick

SpecSecret == Init /\ [][NextSecret]_vars

(***************************************************************************)
(* Prices at their real magnitude.  Python integers and Decimals are       *)
(* unbounded; a sum of a few gwei exceeds the 32-bit range, so here a      *)
(* natural number is its sequence of decimal digits, lowest first, with no *)
(* high zeros (zero is the empty sequence).                                *)
(***************************************************************************)
MaxLeadDigit == 7

(* n * m + c for a small m and c.                                          *)
RECURSIVE WideMulAdd(_, _, _)
WideMulAdd(n, m, c) ==
    IF n = <<>>
    THEN IF c = 0 THEN <<>> ELSE <<c % 10>> \o WideMulAdd(<<>>, m, c \div 10)
    ELSE <<(n[1] * m + c) % 10>> \o WideMulAdd(Tail(n), m, (n[1] * m + c) \div 10)

(* a + b + c for a carry c.                                                *)
RECURSIVE WideAdd(_, _, _)
WideAdd(a, b, c) ==
    IF a = <<>> /\ b = <<>>
    THEN IF c = 0 THEN <<>> ELSE <<c>>
    ELSE LET x == IF a = <<>> THEN 0 ELSE a[1]
             y == IF b = <<>> THEN 0 ELSE b[1]
         IN <<(x + y + c) % 10>>
            \o WideAdd(IF a = <<>> THEN a ELSE Tail(a), IF b = <<>> THEN b ELSE Tail(b),
                       (x + y + c) \div 10)

(* int(value, 16) of a string of hex digits, highest first.                *)
RECURSIVE WideHexValue(_)
WideHexValue(digits) ==
    IF digits = <<>> THEN <<>>
    ELSE WideMulAdd(WideHexValue(SubSeq(digits, 1, Len(digits) - 1)), 16, digits[Len(digits)])

(* n / 10^k rounded half up, k >= 1.                                       *)
WideRoundDivPow10(n, k) ==
    IF Len(n) < k THEN <<>>
    ELSE WideAdd(SubSeq(n, k + 1, Len(n)), <<>>, IF n[k] >= 5 THEN 1 ELSE 0)

RECURSIVE WideString(_)
WideString(n) == IF n = <<>> THEN "" ELSE WideString(Tail(n)) \o ToString(n[1])

(* _format_decimal(Decimal(n) / 10^unit, digits)                           *)
Wide_format_decimal(n, unit, digits) ==
    LET quantized == WideRoundDivPow10(n, unit - digits)
        whole == IF Len(quantized) > digits
                 THEN SubSeq(quantized, digits + 1, Len(quantized)) ELSE <<>>
        fraction == [i \in 1..digits |-> IF i <= Len(quantized) THEN quantized[i] ELSE 0]
    IN (IF whole = <<>> THEN "0" ELSE WideString(whole)) \o "." \o WideString(fraction)

(* A variant of WideFeeHistoryPrice with one slip: the oldest block's base *)
(* fee and reward instead of the latest.                                   *)
WideFeeHistoryPriceOldest(result) ==
    WideAdd(WideHexValue(result.baseFeePerGas[1]), WideHexValue(result.reward[1][1]), 0)

(* _effective_gas_price on a feeHistory result whose last reward is not    *)
(* empty: base_fee + priority_fee.                                         *)
WideFeeHistoryPrice(result) ==
    WideAdd(WideHexValue(result.baseFeePerGas[Len(result.baseFeePerGas)]),
            WideHexValue(result.reward[Len(result.reward)][1]), 0)

(* The gas_price part of as_payload.                                       *)
WideGasPricePayload(gas_price_wei) ==
    [wei |-> gas_price_wei, gwei |-> Wide_format_decimal(gas_price_wei, 9, 4)]

(* 0x3b9aca00 and 0x77359400, with other leading digits around them.       *)
BaseFeeHexes == {<<d1, d2, 9, 10, 12, 10, 0, 0>> : d1 \in 0..MaxLeadDigit, d2 \in 0..15}

RewardHexes == {<<d1, 7, 3, 5, 9, 4, 0, 0>> : d1 \in 0..MaxLeadDigit}

FeeHistories ==
    {[baseFeePerGas |-> <<<<1>>, base>>, reward |-> << <<<<1>>>>, <<reward>> >>] :
        base \in BaseFeeHexes, reward \in RewardHexes}

InitQuote ==
    /\ AtRest
    /\ evaluated \in {[history |-> h, gas_price |-> None] : h \in FeeHistories}

Quote ==
    /\ evaluated.gas_price = None
    /\ evaluated' = [evaluated EXCEPT
                        !.gas_price = WideGasPricePayload(WideFeeHistoryPrice(evaluated.history))]
    /\ RestUnchanged

NextQuote == Quote

SpecQuote == InitQuote /\ [][NextQuote]_vars

(***************************************************************************)
(* The linea strategy alone, against every shape of answer to its gas      *)
(* estimation calls.                                                       *)
(***************************************************************************)
Hex24576 == JHex(<<6, 0, 0, 0>>)

Down == <<HttpText(503), HttpText(503), HttpText(503)>>

Unreachable == <<ConnFail("ConnectError"), ConnFail("ConnectError"), ConnFail("ConnectError")>>

(* Answers to linea_estimateGas from which gas_used can be taken.          *)
LineaUsable ==
    {<<OkResult(Hex21248)>>, <<OkResult(JInt(21248))>>,
     <<OkResult(JDict([gasLimit |-> Hex21248]))>>, <<OkResult(JDict([gasLimit |-> JInt(21248)]))>>,
     <<HttpText(503), OkResult(Hex21248)>>}

(* Answers on which the call or the decoding of its result fails.          *)
LineaUnusable ==
    {Down, Unreachable, <<HttpText(404)>>, <<ErrorObject("method not found")>>, <<NoResult>>,
     <<OkResult(JNull)>>, <<OkResult(JStr("n/a"))>>,
     <<OkResult(JDict([baseFeePerGas |-> Hex21248]))>>,
     <<OkResult(JDict([gasLimit |-> JNull]))>>}

EstimateUsable == {<<OkResult(Hex24576)>>, <<HttpText(503), OkResult(Hex24576)>>}

EstimateUnusable == {Down, <<ErrorObject("execution reverted")>>, <<NoResult>>}

(* The gas price step: feeHistory with rewards, the gasPrice fallback, and *)
(* a node that gives no price at all.                                      *)
PriceAnswers ==
    {[eth_feeHistory |-> <<OkResult(FeeHistoryResult)>>, eth_gasPrice |-> <<OkResult(JHex(<<4>>))>>],
     [eth_feeHistory |-> Down, eth_gasPrice |-> <<OkResult(JHex(<<4>>))>>],
     [eth_feeHistory |-> Down, eth_gasPrice |-> Down]}

LineaEnv(linea, estimate, price) ==
    [eth_estimateGas |-> estimate, eth_feeHistory |-> price.eth_feeHistory,
     eth_maxPriorityFeePerGas |-> <<OkResult(JHex(<<2>>))>>,
     eth_gasPrice |-> price.eth_gasPrice,
     eth_call |-> <<OkResult(JHex(<<6, 4>>))>>, linea_estimateGas |-> linea]

LineaEnvs ==
    {LineaEnv(linea, estimate, price) :
        linea \in LineaUsable \cup LineaUnusable,
        estimate \in EstimateUsable \cup EstimateUnusable, price \in PriceAnswers}

LineaChain == CHOOSE c \in Chains : c.key = "linea"

InitLinea ==
    /\ AtRest
    /\ evaluated \in {[chain |-> LineaChain, env |-> e, computation |-> None] : e \in LineaEnvs}

ComputeLinea ==
    /\ evaluated.computation = None
    /\ evaluated' =
          [evaluated EXCEPT !.computation =
              _compute_fee_linea(evaluated.chain, [rpc |-> RpcUrl, project_id |-> None],
                                 evaluated.env)]
    /\ RestUnchanged

NextLinea == ComputeLinea

SpecLinea == InitLinea /\ [][NextLinea]_vars

(***************************************************************************)
(* beefy.py: get_beefy_withdraw_fees.  The variable request holds the      *)
(* call: its position in the loop over the vaults and the rows so far,     *)
(* each with the chain payload it was built from.                          *)
(***************************************************************************)
DictGet(d, k) == IF k \in DOMAIN d THEN d[k] ELSE None

(* beefy.py _combine_notes: the notes that are not empty, joined.         *)
Beefy_combine_notes(notes) ==
    LET filtered == SelectSeq(notes, LAMBDA n : n # <<>> /\ n # <<"">>)
    IN IF filtered = <<>> THEN <<>>
       ELSE <<JoinNotes([i \in 1..Len(filtered) |-> filtered[i][1]])>>

_reference_payload(vault) == [gas_used |-> vault.withdraw_gas_limit]

_vault_payload(vault) == [key |-> vault.key, display_name |-> vault.display_name]

_missing_chain_payload(vault, time) ==
    [vault |-> _vault_payload(vault),
     chain |-> [key |-> vault.chain_key, display_name |-> vault.chain_key, symbol |-> "",
                chain_id |-> 0],
     gas_limit |-> vault.withdraw_gas_limit, mode |-> None, notes |-> vault.notes,
     error |-> <<Text("chain '" \o vault.chain_key \o "' is not configured")>>,
     fetched_at |-> time, reference |-> _reference_payload(vault), price_symbol |-> None,
     gas_price |-> None, native_fee |-> None]

(* An Optional[int] is a sequence: empty for None, else the one value.     *)
_extract_gas_price(data) ==
    LET gas_price == DictGet(data, "gas_price")
    IN IF gas_price = None THEN <<>>
       ELSE IF "wei" \in DOMAIN gas_price THEN <<gas_price.wei>> ELSE <<>>

BeefyVaultSnapshot(vault, chain, gas_price_wei, native_fee_wei, mode, notes, error, fetched_at, data) ==
    [vault |-> vault, chain |-> chain, gas_price_wei |-> gas_price_wei,
     native_fee_wei |-> native_fee_wei, mode |-> mode, notes |-> notes, error |-> error,
     reference |-> _reference_payload(vault), fetched_at |-> fetched_at,
     data |-> data]            \* not a field: the chain payload the snapshot was built from

(* BeefyVaultSnapshot.as_payload                                           *)
BeefyAsPayload(snapshot) ==
    [vault |-> _vault_payload(snapshot.vault),
     chain |-> ChainIdentity(snapshot.chain),
     gas_limit |-> snapshot.vault.withdraw_gas_limit,
     mode |-> snapshot.mode, notes |-> snapshot.notes, error |-> snapshot.error,
     fetched_at |-> snapshot.fetched_at, reference |-> snapshot.reference,
     price_symbol |-> snapshot.chain.symbol,
     gas_price |-> IF snapshot.gas_price_wei = <<>> THEN None
                   ELSE [wei |-> snapshot.gas_price_wei[1],
                         gwei |-> _format_decimal(snapshot.gas_price_wei[1], 9, 4)],
     native_fee |-> IF snapshot.native_fee_wei = <<>> THEN None
                    ELSE [wei |-> snapshot.native_fee_wei[1],
                          formatted |-> _format_decimal(snapshot.native_fee_wei[1], 18, 8)]]

(* A variant of SnapshotOfChainPayload with one slip: the native fee of    *)
(* the chain payload instead of gas_price * vault.withdraw_gas_limit.      *)
SnapshotOfChainPayloadChainFee(vault, chain, data, time) ==
    LET fetched_at == IF "fetched_at" \in DOMAIN data /\ data.fetched_at # 0
                      THEN data.fetched_at ELSE time
        chain_notes == IF "notes" \in DOMAIN data THEN data.notes ELSE <<>>
        combined_notes == Beefy_combine_notes(<<vault.notes, chain_notes>>)
        gas_price == _extract_gas_price(data)
    IN IF "error" \in DOMAIN data /\ data.error # <<>>
       THEN BeefyVaultSnapshot(vault, chain, <<>>, <<>>, DictGet(data, "mode"), combined_notes,
                               data.error, fetched_at, data)
       ELSE IF gas_price = <<>>
            THEN BeefyVaultSnapshot(vault, chain, <<>>, <<>>, DictGet(data, "mode"),
                                    Beefy_combine_notes(<<combined_notes,
                                                          <<"gas price unavailable">> >>),
                                    None, fetched_at, data)
            ELSE BeefyVaultSnapshot(vault, chain, gas_price, <<data.native_fee.wei>>,
                                    DictGet(data, "mode"), combined_notes, None, fetched_at, data)

(* lines 113-160: the snapshot of a vault from the payload of its chain.   *)
SnapshotOfChainPayload(vault, chain, data, time) ==
    LET fetched_at == IF "fetched_at" \in DOMAIN data /\ data.fetched_at # 0
                      THEN data.fetched_at ELSE time
        chain_notes == IF "notes" \in DOMAIN data THEN data.notes ELSE <<>>
        combined_notes == Beefy_combine_notes(<<vault.notes, chain_notes>>)
        gas_price == _extract_gas_price(data)
    IN IF "error" \in DOMAIN data /\ data.error # <<>>
       THEN BeefyVaultSnapshot(vault, chain, <<>>, <<>>, DictGet(data, "mode"), combined_notes,
                               data.error, fetched_at, data)
       ELSE IF gas_price = <<>>
            THEN BeefyVaultSnapshot(vault, chain, <<>>, <<>>, DictGet(data, "mode"),
                                    Beefy_combine_notes(<<combined_notes,
                                                          <<"gas price unavailable">> >>),
                                    None, fetched_at, data)
            ELSE BeefyVaultSnapshot(vault, chain, gas_price,
                                    <<gas_price[1] * vault.withdraw_gas_limit>>,
                                    DictGet(data, "mode"), combined_notes, None, fetched_at, data)

(* chain_index.get(vault.chain_key)                                        *)
ChainOfVault(vault) ==
    IF \E c \in Chains : c.key = vault.chain_key
    THEN CHOOSE c \in Chains : c.key = vault.chain_key
    ELSE None

BeefyTask == 1

NewBeefyRequest(force_refresh) ==
    [t |-> "beefy", force_refresh |-> force_refresh, index |-> 1, rows |-> <<>>, pc |-> "loop"]

(* rows.append(...) and continue, or return rows after the last vault.     *)
Appended(row, data, cached) ==
    [request EXCEPT !.rows = Append(@, [row |-> row, data |-> data, cached |-> cached]),
                    !.index = @ + 1,
                    !.pc = IF request.index = Len(BeefyVaults) THEN "done" ELSE "loop"]

BeefyRequest ==
    /\ IF request = None THEN TRUE ELSE request.pc \in {"done", "raised"}
    /\ calls_started < MaxCalls
    /\ \E force_refresh \in BOOLEAN : request' = NewBeefyRequest(force_refresh)
    /\ UNCHANGED <<now, enable_precise_mode, fee_cache, stale_cache, task, calls_started,
                   returned, rpc_call, evaluated, vault_cache>>

(* One turn of the loop, up to the next row or to the suspension of        *)
(* get_chain_fee in its computation.                                       *)
BeefyVaultStep ==
    /\ request # None
    /\ request.pc = "loop"
    /\ LET vault == BeefyVaults[request.index]
           popped == IF request.force_refresh THEN TtlPop(vault_cache, vault.key, now)
                     ELSE vault_cache
           cached == TtlGet(popped, vault.key, now)
           chain == ChainOfVault(vault)
       IN IF cached # None
          THEN /\ request' = Appended(BeefyAsPayload(cached), cached.data, TRUE)
               /\ vault_cache' = popped
               /\ UNCHANGED <<now, enable_precise_mode, fee_cache, stale_cache, task,
                              calls_started, returned>>
          ELSE IF chain = None
               THEN /\ request' = Appended(_missing_chain_payload(vault, now), None, FALSE)
                    /\ vault_cache' = popped
                    /\ UNCHANGED <<now, enable_precise_mode, fee_cache, stale_cache, task,
                                   calls_started, returned>>
               ELSE /\ GetChainFeeStart(BeefyTask, chain, FALSE, request.force_refresh)
                    /\ IF task'[BeefyTask].pc = "computing"
                       THEN /\ request' = [request EXCEPT !.pc = "awaiting"]
                            /\ vault_cache' = popped
                       ELSE LET snapshot == SnapshotOfChainPayload(vault, chain,
                                                                   returned'.result.payload, now)
                            IN /\ request' = Appended(BeefyAsPayload(snapshot), snapshot.data,
                                                      FALSE)
                               /\ vault_cache' = TtlSet(popped, vault.key, snapshot, now)
    /\ UNCHANGED <<rpc_call, evaluated>>

(* get_chain_fee returns to the loop, or raises through it.                *)
BeefyVaultResume ==
    /\ request # None
    /\ request.pc = "awaiting"
    /\ task[BeefyTask].pc = "computing"
    /\ \E outcome \in ComputeOutcomes[task[BeefyTask].chain] :
          GetChainFeeFinish(BeefyTask, outcome)
    /\ LET vault == BeefyVaults[request.index]
       IN IF returned'.result.t = "returned"
          THEN LET snapshot == SnapshotOfChainPayload(vault, ChainOfVault(vault),
                                                      returned'.result.payload, now)
               IN /\ request' = Appended(BeefyAsPayload(snapshot), snapshot.data, FALSE)
                  /\ vault_cache' = TtlSet(vault_cache, vault.key, snapshot, now)
          ELSE /\ request' = [request EXCEPT !.pc = "raised"]
               /\ UNCHANGED vault_cache
    /\ UNCHANGED <<rpc_call, evaluated>>

NextBeefy ==
    \/ BeefyRequest
    \/ BeefyVaultStep
    \/ BeefyVaultResume
    \/ Tick

SpecBeefy == Init /\ [][NextBeefy]_vars

(***************************************************************************)
(* _compute_fee alone, over the fee-model tags a configuration may carry:  *)
(* the four models in several spellings, no tag, and unknown tags.         *)
(***************************************************************************)
FeeModelTags ==
    {"l1", "optimism", "arbitrum", "linea", "L1", "Optimism", "OPTIMISM", "Arbitrum", "Linea",
     "", "zksync", "polygon"}

TaggedChain(tag) == [(CHOOSE c \in Chains : c.key = "ethereum") EXCEPT !.fee_model = tag]

InitDispatch ==
    /\ AtRest
    /\ evaluated \in {[chain |-> TaggedChain(tag), osenv |-> o, env |-> e, computation |-> None] :
                         tag \in FeeModelTags, o \in OsEnvs, e \in Envs}

Dispatch ==
    /\ evaluated.computation = None
    /\ evaluated' = [evaluated EXCEPT
                        !.computation = _compute_fee(evaluated.chain, evaluated.osenv,
                                                     evaluated.env)]
    /\ RestUnchanged

NextDispatch == Dispatch

SpecDispatch == InitDispatch /\ [][NextDispatch]_vars

(***************************************************************************)
(* The l1 strategy alone, against every way eth_estimateGas can fail.      *)
(***************************************************************************)
(* Each failing answer with the class of the exception it raises in        *)
(* _estimate_gas's try block.                                              *)
EstimateFailures ==
    {[script |-> Down, cls |-> "HTTPStatusError"],
     [script |-> <<HttpText(404)>>, cls |-> "HTTPStatusError"],
     [script |-> Unreachable, cls |-> "ConnectError"],
     [script |-> <<ErrorObject("execution reverted")>>, cls |-> "RPCError"],
     [script |-> <<ErrorNull>>, cls |-> "AttributeError"],
     [script |-> <<HttpText(200)>>, cls |-> "JSONDecodeError"],
     [script |-> <<NoResult>>, cls |-> "KeyError"],
     [script |-> <<OkResult(JStr("n/a"))>>, cls |-> "ValueError"],
     [script |-> <<OkResult(JNull)>>, cls |-> "TypeError"]}

NativeGasLimits == {21000, 30000, 100000}

L1Chain(native_gas_limit) ==
    [(CHOOSE c \in Chains : c.key = "ethereum") EXCEPT !.native_gas_limit = native_gas_limit]

L1Envs ==
    {LineaEnv(<<OkResult(Hex21248)>>, estimate, price) :
        estimate \in EstimateUsable \cup {f.script : f \in EstimateFailures},
        price \in PriceAnswers}

InitL1 ==
    /\ AtRest
    /\ evaluated \in {[chain |-> L1Chain(n), env |-> e, computation |-> None] :
                         n \in NativeGasLimits, e \in L1Envs}

ComputeL1 ==
    /\ evaluated.computation = None
    /\ evaluated' =
          [evaluated EXCEPT !.computation =
              _compute_fee_l1(evaluated.chain, [rpc |-> RpcUrl, project_id |-> None],
                              evaluated.env)]
    /\ RestUnchanged

NextL1 == ComputeL1

SpecL1 == InitL1 /\ [][NextL1]_vars

(***************************************************************************)
(* _effective_gas_price alone, over the shapes an eth_feeHistory answer    *)
(* can take and the answers to the two other gas price methods.            *)
(***************************************************************************)
BaseFees == JList(<<JHex(<<1>>), JHex(<<3>>)>>)

(* The reward field: one list per block, one entry per percentile.         *)
RewardLists ==
    {JList(<<JList(<<JHex(<<2>>)>>), JList(<<JHex(<<5>>)>>)>>),
     JList(<<JList(<<JHex(<<2>>)>>), JList(<<>>)>>),
     JList(<<JList(<<>>), JList(<<JHex(<<5>>)>>)>>),
     JList(<<JList(<<>>), JList(<<>>)>>),
     JList(<<>>),
     JNull}

FeeHistoryWithReward(rewards) == JDict([baseFeePerGas |-> BaseFees, reward |-> rewards])

FeeHistoryWithoutReward == JDict([baseFeePerGas |-> BaseFees])

(* Answers to eth_feeHistory that call_rpc returns.                        *)
FeeHistoryReturned ==
    {<<OkResult(FeeHistoryWithReward(r))>> : r \in RewardLists}
    \cup {<<OkResult(FeeHistoryWithoutReward)>>,
          <<HttpText(503), OkResult(FeeHistoryWithoutReward)>>,
          <<OkResult(JDict([baseFeePerGas |-> JList(<<>>)]))>>,
          <<OkResult(JDict([reward |-> JList(<<>>)]))>>,
          <<OkResult(JNull)>>,
          <<NoResult>>}

(* Answers on which call_rpc raises.                                       *)
FeeHistoryRaised ==
    {Down, Unreachable, <<HttpText(404)>>, <<ErrorObject("method not found")>>}

PriceEnvs ==
    {[eth_feeHistory |-> h, eth_maxPriorityFeePerGas |-> p, eth_gasPrice |-> g] :
        h \in FeeHistoryReturned \cup FeeHistoryRaised,
        p \in {<<OkResult(JHex(<<7>>))>>, <<NoResult>>, Down},
        g \in {<<OkResult(JHex(<<4>>))>>, Down}}

InitPrice ==
    /\ AtRest
    /\ evaluated \in {[env |-> e, price |-> None] : e \in PriceEnvs}

EffectiveGasPrice ==
    /\ evaluated.price = None
    /\ evaluated' = [evaluated EXCEPT !.price = _effective_gas_price(evaluated.env, RpcUrl)]
    /\ RestUnchanged

NextPrice == EffectiveGasPrice

SpecPrice == InitPrice /\ [][NextPrice]_vars

(***************************************************************************)
(* get_chain_fee on the chains whose strategies call _estimate_gas without *)
(* a fallback, arbitrum and optimism, against nodes on which               *)
(* eth_estimateGas, the gas price methods or the oracle eth_call fail.     *)
(***************************************************************************)
StrictChains == {c \in Chains : c.fee_model \in {"arbitrum", "optimism"}}

(* Answers of the GasPriceOracle contract to eth_call, usable or not.      *)
OracleAnswers ==
    {<<OkResult(JHex(<<6, 4>>))>>, <<HttpText(503), OkResult(JHex(<<6, 4>>))>>, Down,
     <<ErrorObject("execution reverted")>>, <<NoResult>>, <<OkResult(JStr("n/a"))>>}

(* The gas price methods: healthy, eth_feeHistory down, both down.  The     *)
(* optimism strategy asks eth_gasPrice only.                               *)
StrictPriceAnswers(chain) ==
    IF chain.fee_model = "optimism" THEN {p \in PriceAnswers : p.eth_feeHistory = Down}
    ELSE PriceAnswers

StrictOracleAnswers(chain) ==
    IF chain.fee_model = "optimism" THEN OracleAnswers ELSE {<<OkResult(JHex(<<6, 4>>))>>}

StrictEnv(estimate, price, oracle) ==
    [LineaEnv(<<OkResult(Hex21248)>>, estimate, price) EXCEPT !.eth_call = oracle]

(* Nodes on which eth_estimateGas fails, the rest healthy or down as well, *)
(* and nodes on which it answers, with every answer of the later steps.    *)
StrictEnvs ==
    [c \in StrictChains |->
        {StrictEnv(f.script, price, oracle) :
            f \in EstimateFailures,
            price \in {p \in PriceAnswers : p.eth_gasPrice = p.eth_feeHistory
                                               \/ p.eth_feeHistory # Down},
            oracle \in {<<OkResult(JHex(<<6, 4>>))>>}}
        \cup {StrictEnv(estimate, price, oracle) :
                 estimate \in EstimateUsable, price \in StrictPriceAnswers(c),
                 oracle \in StrictOracleAnswers(c)}]

(* What _compute_fee comes to against a node, with the node it ran on.     *)
StrictOutcome(chain, env) ==
    Bind(_compute_fee(chain, [rpc |-> RpcUrl, project_id |-> None], env), LAMBDA o :
         [res |-> o.res, calls |-> o.calls, env |-> env])

StrictOutcomes == [c \in StrictChains |-> {StrictOutcome(c, e) : e \in StrictEnvs[c]}]

StartStrict(t) ==
    /\ \A u \in Tasks : task[u].pc = "idle"
    /\ \E chain \in StrictChains, force_refresh \in BOOLEAN :
          /\ IF returned = None THEN TRUE ELSE returned.chain = chain
          /\ GetChainFeeStart(t, chain, FALSE, force_refresh)
    /\ UNCHANGED <<request, rpc_call, evaluated, vault_cache>>

CompleteStrict(t) ==
    /\ task[t].pc = "computing"
    /\ \E outcome \in StrictOutcomes[task[t].chain] : GetChainFeeFinish(t, outcome)
    /\ UNCHANGED <<request, rpc_call, evaluated, vault_cache>>

NextStrict ==
    \/ \E t \in Tasks : StartStrict(t)
    \/ \E t \in Tasks : CompleteStrict(t)
    \/ Tick

SpecStrict == Init /\ [][NextStrict]_vars

(***************************************************************************)
(* routes/fees.py list_fees as a whole request: the gathered jobs of lines *)
(* 221-225 and then get_beefy_withdraw_fees at line 237, which asks        *)
(* get_chain_fee again for the chain of every vault it does not find in    *)
(* its cache.  launched counts, per chain, the computations the request    *)
(* has begun; calls_started bounds the calls of each phase of a request.   *)
(***************************************************************************)
MaxRequests == 2

ChainKeys == {c.key : c \in Chains}

NewAggregate(serial, precise, force_refresh) ==
    NewRequest(precise, force_refresh)
    @@ [t |-> "list_fees", serial |-> serial, pc |-> "gather", index |-> 1, rows |-> <<>>,
        launched |-> [k \in ChainKeys |-> 0]]

(* What a computation of the request comes to: a fee, a failure that       *)
(* get_chain_fee catches, or one that it does not.                         *)
AggregateOutcomes ==
    [c \in Chains |->
        {_compute_fee(c, [rpc |-> RpcUrl, project_id |-> None], e) :
            e \in {e \in Envs : /\ e.eth_feeHistory = <<ErrorObject("method not found")>>
                                /\ e.eth_call = <<OkResult(JHex(<<6, 4>>))>>}}]

(* A computation for the chain begins.                                     *)
Launch(r, chain) == [r EXCEPT !.launched[chain.key] = @ + 1]

(* Line 225 returns the results, or raises the first exception of a job.   *)
AfterGather(r) ==
    IF r.pc # "gather" \/ r.response = None THEN r
    ELSE [r EXCEPT !.pc = IF r.response.t = "raised" THEN "raised" ELSE "gathered"]

AggregateStart(precise, force_refresh) ==
    /\ IF request = None THEN TRUE
       ELSE request.pc \in {"done", "raised"} /\ AllDone(request) /\ request.serial < MaxRequests
    /\ request' = NewAggregate(IF request = None THEN 1 ELSE request.serial + 1,
                               precise, force_refresh)
    /\ calls_started' = 0
    /\ UNCHANGED <<now, enable_precise_mode, fee_cache, stale_cache, task, returned,
                   rpc_call, evaluated, vault_cache>>

AggregateJobStart ==
    /\ request # None
    /\ request.pc = "gather"
    /\ ~AllStarted(request)
    /\ LET j == request.started + 1 IN
       \E t \in Tasks :
          /\ GetChainFeeStart(t, get_chains[j], request.precise, request.force_refresh)
          /\ request' = IF task' = task
                        THEN AfterGather(Gathered([request EXCEPT !.started = j], j,
                                                  returned'.result))
                        ELSE Launch([request EXCEPT !.started = j, !.running[j] = t],
                                    get_chains[j])
    /\ UNCHANGED <<rpc_call, evaluated, vault_cache>>

AggregateJobComplete(t) ==
    /\ request # None
    /\ AllStarted(request)
    /\ \E j \in Jobs :
          /\ request.running[j] = t
          /\ \E outcome \in AggregateOutcomes[task[t].chain] : GetChainFeeFinish(t, outcome)
          /\ request' = AfterGather(Gathered(request, j, returned'.result))
    /\ UNCHANGED <<rpc_call, evaluated, vault_cache>>

(* Line 237: get_beefy_withdraw_fees is entered with the request's flag.   *)
AggregateBeefy ==
    /\ request # None
    /\ request.pc = "gathered"
    /\ request' = [request EXCEPT !.pc = "loop"]
    /\ calls_started' = 0
    /\ UNCHANGED <<now, enable_precise_mode, fee_cache, stale_cache, task, returned,
                   rpc_call, evaluated, vault_cache>>

(* beefy.py lines 99-114, one turn of the loop inside the request.         *)
AggregateVaultStep ==
    /\ request # None
    /\ request.pc = "loop"
    /\ LET vault == BeefyVaults[request.index]
           popped == IF request.force_refresh THEN TtlPop(vault_cache, vault.key, now)
                     ELSE vault_cache
           cached == TtlGet(popped, vault.key, now)
           chain == ChainOfVault(vault)
       IN IF cached # None
          THEN /\ request' = Appended(BeefyAsPayload(cached), cached.data, TRUE)
               /\ vault_cache' = popped
               /\ UNCHANGED <<now, enable_precise_mode, fee_cache, stale_cache, task,
                              calls_started, returned>>
          ELSE IF chain = None
               THEN /\ request' = Appended(_missing_chain_payload(vault, now), None, FALSE)
                    /\ vault_cache' = popped
                    /\ UNCHANGED <<now, enable_precise_mode, fee_cache, stale_cache, task,
                                   calls_started, returned>>
               ELSE /\ GetChainFeeStart(BeefyTask, chain, FALSE, request.force_refresh)
                    /\ IF task'[BeefyTask].pc = "computing"
                       THEN /\ request' = Launch([request EXCEPT !.pc = "awaiting"], chain)
                            /\ vault_cache' = popped
                       ELSE LET snapshot == SnapshotOfChainPayload(vault, chain,
                                                                   returned'.result.payload, now)
                            IN /\ request' = Appended(BeefyAsPayload(snapshot), snapshot.data,
                                                      FALSE)
                               /\ vault_cache' = TtlSet(popped, vault.key, snapshot, now)
    /\ UNCHANGED <<rpc_call, evaluated>>

AggregateVaultResume ==
    /\ request # None
    /\ request.pc = "awaiting"
    /\ task[BeefyTask].pc = "computing"
    /\ \E outcome \in AggregateOutcomes[task[BeefyTask].chain] :
          GetChainFeeFinish(BeefyTask, outcome)
    /\ LET vault == BeefyVaults[request.index]
       IN IF returned'.result.t = "returned"
          THEN LET snapshot == SnapshotOfChainPayload(vault, ChainOfVault(vault),
                                                      returned'.result.payload, now)
               IN /\ request' = Appended(BeefyAsPayload(snapshot), snapshot.data, FALSE)
                  /\ vault_cache' = TtlSet(vault_cache, vault.key, snapshot, now)
          ELSE /\ request' = [request EXCEPT !.pc = "raised"]
               /\ UNCHANGED vault_cache
    /\ UNCHANGED <<rpc_call, evaluated>>

AggregateTick ==
    /\ IF request = None THEN TRUE ELSE AllStarted(request)
    /\ Tick

NextAggregate ==
    \/ \E precise \in BOOLEAN, force_refresh \in BOOLEAN : AggregateStart(precise, force_refresh)
    \/ AggregateJobStart
    \/ \E t \in Tasks : AggregateJobComplete(t)
    \/ AggregateBeefy
    \/ AggregateVaultStep
    \/ AggregateVaultResume
    \/ AggregateTick

SpecAggregate == Init /\ [][NextAggregate]_vars

(***************************************************************************)
(* Payloads as objects.  A Python dict is an object of the heap; a dict    *)
(* held in a dict is held by reference, so a write through one holder is   *)
(* seen by every other.  evaluated holds the heap, the rows handed out by  *)
(* get_chain_fee (a reference each) and what the orchestrator did to them. *)
(***************************************************************************)
Ref(n) == [ref |-> n]

(* The keys whose values are dicts.                                        *)
DictFields == {"chain", "gas_price", "native_fee", "erc20", "fee", "lp_breaker"}

(* A dict display: every nested display is evaluated to a new object, then *)
(* the dict itself.  todo holds the nested keys not yet evaluated.         *)
RECURSIVE Build(_, _, _)
Build(heap, d, todo) ==
    IF todo = {} THEN [heap |-> Append(heap, d), ref |-> Len(heap) + 1]
    ELSE LET f == CHOOSE f \in todo : TRUE
             sub == Build(heap, d[f], DOMAIN d[f] \cap DictFields)
         IN Build(sub.heap, [d EXCEPT ![f] = Ref(sub.ref)], todo \ {f})

NewDict(heap, d) == Build(heap, d, DOMAIN d \cap DictFields)

(* The value a reader sees behind a reference.                             *)
RECURSIVE Deref(_, _)
Deref(heap, ref) ==
    [f \in DOMAIN heap[ref] |->
        IF f \in DictFields THEN Deref(heap, heap[ref][f].ref) ELSE heap[ref][f]]

(* The objects reachable from a reference.                                 *)
RECURSIVE Reach(_, _)
Reach(heap, ref) ==
    {ref} \cup UNION {Reach(heap, heap[ref][f].ref) : f \in DOMAIN heap[ref] \cap DictFields}

(* d[key] = value and d.setdefault(key, value) on the object behind ref.   *)
SetItem(heap, ref, key, value) ==
    [heap EXCEPT ![ref] = [f \in DOMAIN @ \cup {key} |-> IF f = key THEN value ELSE @[f]]]

SetDefault(heap, ref, key, value) ==
    IF key \in DOMAIN heap[ref] THEN heap ELSE SetItem(heap, ref, key, value)

(* A variant of AsPayloadObject with one slip: the payload is built once   *)
(* per snapshot and handed out again on later calls.                       *)
AsPayloadObjectMemo(e, snapshot) ==
    IF \E i \in DOMAIN e.rows : e.rows[i].snapshot = snapshot
    THEN [heap |-> e.heap,
          ref |-> e.rows[CHOOSE i \in DOMAIN e.rows : e.rows[i].snapshot = snapshot].ref]
    ELSE NewDict(e.heap, as_payload(snapshot))

(* gas.py lines 52-80: as_payload returns a dict display.                  *)
AsPayloadObject(e, snapshot) == NewDict(e.heap, as_payload(snapshot))

(* gas.py lines 115-121: three item assignments on the payload just built. *)
StaleObject(e, stale_snapshot, exc) ==
    LET built == AsPayloadObject(e, stale_snapshot)
        notes == _combine_notes(<<built.heap[built.ref].notes,
                                  <<"stale cache (" \o exc.cls \o ")">> >>)
        h1 == SetItem(built.heap, built.ref, "notes", notes)
        h2 == SetItem(h1, built.ref, "stale", TRUE)
    IN [heap |-> SetItem(h2, built.ref, "debug_error", _sanitize_error_message(exc.msg)),
        ref |-> built.ref]

(* The object get_chain_fee returns on the path the call took.             *)
Serve(e, call) ==
    IF call.result.t # "returned" THEN e
    ELSE LET built == IF call.snapshot # None THEN AsPayloadObject(e, call.snapshot)
                      ELSE IF call.stale_snapshot # None
                           THEN StaleObject(e, call.stale_snapshot, call.outcome.res.exc)
                           ELSE NewDict(e.heap, _error_payload(call.chain,
                                                               call.outcome.res.exc.msg))
         IN [e EXCEPT !.heap = built.heap,
                      !.rows = Append(@, [ref |-> built.ref,
                                          payload |-> call.result.payload,
                                          snapshot |-> IF call.snapshot # None THEN call.snapshot
                                                       ELSE call.stale_snapshot,
                                          touched |-> FALSE,
                                          after |-> e.mutations])]

_DEFAULT_LP_GAS_LIMIT == 1626385

(* routes/fees.py on one row: _ensure_erc20_shape (lines 484-503), the     *)
(* lp_breaker entry of lines 286-298 without the fields computed from the  *)
(* row, and, when fiat prices were asked for and are unavailable, the      *)
(* fields of lines 384-386.                                                *)
Shaped(heap, ref, fiat) ==
    LET erc20 == heap[ref].erc20.ref
        h1 == SetDefault(heap, erc20, "gas_limit", 0)
        h2 == SetDefault(h1, erc20, "token_symbol", "")
        h3 == SetDefault(h2, h2[erc20].fee.ref, "wei", None)
        h4 == SetDefault(h3, h3[erc20].fee.ref, "formatted", None)
        h5 == SetDefault(h4, ref, "erc20_fiat_fee", None)
        breaker == NewDict(h5, [gas_limit |-> _DEFAULT_LP_GAS_LIMIT, fiat_fee |-> None,
                                error |-> None, fiat_currency_active |-> None])
        h6 == SetItem(breaker.heap, ref, "lp_breaker", Ref(breaker.ref))
    IN IF fiat
       THEN SetItem(SetItem(SetItem(h6, ref, "fiat_fee", None), ref, "fiat_price", None),
                    ref, "erc20_fiat_fee", None)
       ELSE h6

AliasChain == CHOOSE c \in Chains : c.key = "ethereum"

InitAlias ==
    /\ now = 0
    /\ enable_precise_mode = FALSE
    /\ fee_cache = [k \in CacheKeys |-> None]
    /\ stale_cache = [k \in CacheKeys |-> None]
    /\ task = [t \in Tasks |-> IdleTask]
    /\ calls_started = 0
    /\ returned = None
    /\ request = None
    /\ rpc_call = None
    /\ evaluated = [heap |-> <<>>, rows |-> <<>>, mutations |-> 0]
    /\ vault_cache = [k \in VaultKeys |-> None]

AliasStart(t) ==
    /\ \E force_refresh \in BOOLEAN : GetChainFeeStart(t, AliasChain, FALSE, force_refresh)
    /\ evaluated' = IF task' = task THEN Serve(evaluated, returned') ELSE evaluated
    /\ UNCHANGED <<request, rpc_call, vault_cache>>

AliasComplete(t) ==
    /\ task[t].pc = "computing"
    /\ \E outcome \in AggregateOutcomes[task[t].chain] : GetChainFeeFinish(t, outcome)
    /\ evaluated' = Serve(evaluated, returned')
    /\ UNCHANGED <<request, rpc_call, vault_cache>>

(* The orchestrator shapes a row it was handed.                            *)
Orchestrate(i) ==
    /\ i \in DOMAIN evaluated.rows
    /\ ~evaluated.rows[i].touched
    /\ \E fiat \in BOOLEAN :
          evaluated' = [evaluated EXCEPT !.heap = Shaped(@, evaluated.rows[i].ref, fiat),
                                         !.rows[i].touched = TRUE,
                                         !.mutations = @ + 1]
    /\ RestUnchanged

NextAlias ==
    \/ \E t \in Tasks : AliasStart(t)
    \/ \E t \in Tasks : AliasComplete(t)
    \/ \E i \in 1..MaxCalls : Orchestrate(i)
    \/ Tick

SpecAlias == InitAlias /\ [][NextAlias]_vars

(***************************************************************************)
(* rpc.py call_rpc POST by POST: one turn of the while loop per step, the  *)
(* node answering as its script says and going on with the last answer     *)
(* for ever.  A POST ends, by the client's timeout at the latest, so the   *)
(* loop is scheduled fairly.                                               *)
(***************************************************************************)
InitRpcSteps ==
    /\ AtRest
    /\ evaluated \in {[script |-> c.script, retries |-> c.retries,
                       initial_backoff |-> c.initial_backoff, attempt |-> 0,
                       backoff |-> c.initial_backoff, sleeps |-> <<>>, posts |-> 0,
                       result |-> None] : c \in RpcCalls}

(* Lines 34-57: a POST and what the loop does with its answer.             *)
RpcPost ==
    /\ evaluated.result = None
    /\ LET r == HandleResponse(ResponseAt(evaluated.script, evaluated.posts + 1), RpcUrl)
           retry == IF r.ok THEN FALSE
                    ELSE IF r.exc.cls = "HTTPStatusError"
                         THEN evaluated.attempt < evaluated.retries
                              /\ r.status \in RETRYABLE_STATUS
                         ELSE r.exc.cls \in RequestErrorClasses
                              /\ evaluated.attempt < evaluated.retries
       IN evaluated' =
             IF retry
             THEN [evaluated EXCEPT !.posts = @ + 1, !.attempt = @ + 1, !.backoff = @ * 2,
                                    !.sleeps = Append(@, evaluated.backoff)]
             ELSE [evaluated EXCEPT !.posts = @ + 1,
                                    !.result = IF r.ok THEN Return(r.val) ELSE Raise(r.exc.cls, r.exc.msg)]
    /\ RestUnchanged

NextRpcSteps == RpcPost

SpecRpcSteps == InitRpcSteps /\ [][NextRpcSteps]_vars /\ WF_vars(RpcPost)

(***************************************************************************)
(* get_chain_fee with the event loop resuming every suspended call: the    *)
(* RPCs of a computation end, so the computation does.                     *)
(***************************************************************************)
FairSpec == Spec /\ \A t \in Tasks : WF_vars(Complete(t))

(***************************************************************************)
(* Properties.                                                             *)
(***************************************************************************)
Computed(call) == call.outcome # None

Failed(call) == call.outcome # None /\ ~call.outcome.res.ok

Succeeded(call) == call.outcome # None /\ call.outcome.res.ok

(* The step in which the suspended call t returns.                         *)
Completes(t) == task[t].pc = "computing" /\ task'[t].pc = "idle"

(* The step in which a call begins and returns at once from the cache.     *)
Hits == calls_started' # calls_started /\ task' = task

IsStalePayload(p) == "stale" \in DOMAIN p /\ p.stale = TRUE /\ "error" \notin DOMAIN p

IsErrorPayload(p) == "error" \in DOMAIN p /\ "stale" \notin DOMAIN p

(* C1: a computation runs only when, after the optional eviction, the      *)
(* primary cache has no live entry for the key; a call that finds a live   *)
(* entry and is not forced returns the rendering of that entry and runs no *)
(* computation, hence issues no RPC call.                                  *)
C1_ComputeOnlyOnMiss ==
    /\ \A t \in Tasks :
          task[t].pc = "computing" => task[t].live_at_start = None \/ task[t].force_refresh
    /\ returned # None =>
          /\ Computed(returned) => returned.live_at_start = None \/ returned.force_refresh
          /\ returned.live_at_start # None /\ ~returned.force_refresh =>
                /\ ~Computed(returned)
                /\ returned.result = Returned(as_payload(returned.live_at_start))

C1_Witness ==
    /\ returned # None
    /\ returned.live_at_start # None
    /\ ~returned.force_refresh
    /\ returned.result.t = "returned"

(* C3: get_chain_fee never raises: whatever way the strategy fails, the    *)
(* call returns a stale payload or a structured error payload.             *)
C3_NeverRaises ==
    returned # None /\ Failed(returned) =>
        /\ returned.result.t = "returned"
        /\ IsStalePayload(returned.result.payload) \/ IsErrorPayload(returned.result.payload)

(* C10: the secondary store is read only after the computation of the same *)
(* call has failed: not before the computation starts, not in a call whose *)
(* computation succeeds, not on a hit.                                     *)
C10_SecondaryReadOnlyAfterFailure ==
    /\ \A t \in Tasks : task[t].pc = "computing" => ~task[t].stale_read
    /\ returned # None /\ returned.stale_read => Failed(returned)

(* The step in which some call returns.                                    *)
ReturnStep == Hits \/ \E t \in Tasks : Completes(t)

(* C2: a call whose computation fails while the secondary store holds a    *)
(* snapshot for the key returns that snapshot's payload (same gas price,   *)
(* gas limit, native fee and fetched_at) with stale = true, the notes      *)
(* extended by "stale cache (<error class>)" and no error field, and       *)
(* leaves the stored snapshot as it was.                                   *)
C2_StaleFallback ==
    [][\A t \in Tasks :
          (/\ Completes(t)
           /\ Failed(returned')
           /\ stale_cache[task[t].cache_key] # None
           /\ ~task[t].raced)
          => LET s == stale_cache[task[t].cache_key]
                 p == returned'.result.payload
                 cls == returned'.outcome.res.exc.cls
             IN /\ returned'.result.t = "returned"
                /\ "error" \notin DOMAIN p
                /\ "stale" \in DOMAIN p /\ p.stale = TRUE
                /\ p.gas_price.wei = s.data.gas_price_wei
                /\ p.gas_limit = s.data.gas_used
                /\ p.native_fee.wei = s.data.native_fee_wei
                /\ p.fetched_at = s.fetched_at
                /\ p.notes = _combine_notes(<<s.data.notes,
                                              <<"stale cache (" \o cls \o ")">> >>)
                /\ stale_cache'[task[t].cache_key] = s]_vars

(* C4: a call whose computation fails while no snapshot was ever stored    *)
(* for the key returns an error payload: the chain identity and an error   *)
(* message, no stale marker, no gas_price, no native_fee.                  *)
C4_ErrorPayloadWithoutSnapshot ==
    returned # None /\ Failed(returned) /\ returned.secondary = None =>
        /\ returned.result.t = "returned"
        /\ LET p == returned.result.payload
           IN /\ p.chain = ChainIdentity(returned.chain)
              /\ "error" \in DOMAIN p
              /\ {"stale", "gas_price", "native_fee"} \cap DOMAIN p = {}

(* C5: a successful computation stores one new snapshot under the call's   *)
(* key in both the primary cache and the secondary store, and the call     *)
(* returns the rendering of that snapshot.                                 *)
C5_SuccessStoresInBoth ==
    [][\A t \in Tasks :
          Completes(t) /\ Succeeded(returned')
          => LET k == task[t].cache_key
                 s == FeeSnapshot(task[t].chain, returned'.outcome.res.val, now)
             IN /\ TtlGet(fee_cache', k, now) = s
                /\ stale_cache'[k] = s
                /\ returned'.result = Returned(as_payload(s))]_vars

C5_Witness ==
    /\ returned # None
    /\ Succeeded(returned)
    /\ TtlGet(fee_cache, returned.cache_key, now) = returned.snapshot
    /\ stale_cache[returned.cache_key] = returned.snapshot

(* C6: a call whose computation fails writes neither cache, so that unless *)
(* another call stored the key meanwhile the primary cache holds no live   *)
(* entry for the key and the next call computes again.                     *)
C6_FailureWritesNothing ==
    [][\A t \in Tasks :
          Completes(t) /\ Failed(returned')
          => /\ UNCHANGED <<fee_cache, stale_cache>>
             /\ ~task[t].raced => ~TtlLive(fee_cache', task[t].cache_key, now)]_vars

C6_Witness ==
    /\ returned # None
    /\ Failed(returned)
    /\ returned.result.t = "returned"
    /\ IsErrorPayload(returned.result.payload)
    /\ fee_cache[returned.cache_key] = None
    /\ stale_cache[returned.cache_key] = None

(* C7: a call with force_refresh never returns as a cache hit: its key has *)
(* no live primary entry once it has begun and it computes.  Beginning it  *)
(* changes no other primary entry and no secondary entry; completing it    *)
(* removes no live primary entry of another key and no secondary entry.    *)
C7_ForceRefreshEvictsOwnKey ==
    [][/\ Hits => ~returned'.force_refresh
       /\ \A t \in Tasks :
             task[t].pc = "idle" /\ task'[t].pc = "computing" /\ task'[t].force_refresh
             => /\ ~TtlLive(fee_cache', task'[t].cache_key, now)
                /\ \A k \in CacheKeys \ {task'[t].cache_key} : fee_cache'[k] = fee_cache[k]
                /\ stale_cache' = stale_cache
       /\ \A t \in Tasks :
             Completes(t) /\ task[t].force_refresh
             => /\ Computed(returned')
                /\ \A k \in CacheKeys \ {task[t].cache_key} :
                      TtlLive(fee_cache, k, now) => fee_cache'[k] = fee_cache[k]
                /\ \A k \in CacheKeys : stale_cache[k] # None => stale_cache'[k] # None]_vars

C7_Witness ==
    /\ returned # None
    /\ returned.force_refresh
    /\ returned.live_at_start # None
    /\ Computed(returned)

(* C8, as stated: two calls with the same key, neither forced, begun less  *)
(* than one TTL apart, return identical payloads and compute at most once  *)
(* between them, whatever the first call came to.                          *)
C8_IdempotentWithinTtl ==
    [][(/\ ReturnStep
        /\ returned # None
        /\ returned'.cache_key = returned.cache_key
        /\ ~returned.force_refresh /\ ~returned'.force_refresh
        /\ returned'.started - returned.started < cache_ttl_seconds
        /\ returned.started - returned'.started < cache_ttl_seconds)
       => /\ returned'.result = returned.result
          /\ ~(Computed(returned) /\ Computed(returned'))]_vars

(* C8, amended: two calls with the same key, neither forced, where the     *)
(* first returned a fresh payload and the second begins while the primary  *)
(* entry the first call stored or hit is live, return identical payloads   *)
(* and the second computes nothing.                                        *)
C8_IdempotentWhileEntryLive ==
    [][(/\ ReturnStep
        /\ returned # None
        /\ returned'.cache_key = returned.cache_key
        /\ ~returned.force_refresh /\ ~returned'.force_refresh
        /\ returned.snapshot # None
        /\ returned'.live_at_start = returned.snapshot)
       => /\ returned'.result = returned.result
          /\ ~Computed(returned')]_vars

C8_Witness ==
    /\ returned # None
    /\ ~returned.force_refresh
    /\ returned.live_at_start # None
    /\ returned.live_at_start.fetched_at < returned.started
    /\ returned.result = Returned(as_payload(returned.live_at_start))

(* C9: the secondary entry of a key changes only in the step in which a    *)
(* computation for that key succeeds, and then to the new snapshot; the    *)
(* passing of time, evictions, failures and calls for other keys leave it  *)
(* as it is, so an entry once stored never goes away.                      *)
C9_SecondaryChangesOnlyOnSuccess ==
    [][\A k \in CacheKeys :
          stale_cache'[k] # stale_cache[k]
          => \E t \in Tasks :
                /\ Completes(t)
                /\ task[t].cache_key = k
                /\ Succeeded(returned')
                /\ stale_cache'[k] = FeeSnapshot(task[t].chain, returned'.outcome.res.val, now)]_vars

C9_Witness ==
    /\ returned # None
    /\ Failed(returned)
    /\ returned.force_refresh
    /\ stale_cache[returned.cache_key] # None
    /\ stale_cache[returned.cache_key].fetched_at + cache_ttl_seconds <= now
    /\ ~TtlLive(fee_cache, returned.cache_key, now)

(* The keys of the two precision flags of a chain keep apart: a call       *)
(* begun with one flag leaves the entries under the other flag's key as    *)
(* they are and, on a hit, is served the entry under its own key; a call   *)
(* that completes leaves the live primary entry and the secondary entry of *)
(* the other keys as they are.                                             *)
PreciseFrame(t, chain, precise) ==
    LET own == _cache_key(chain, precise, enable_precise_mode)
        other == _cache_key(chain, ~precise, enable_precise_mode)
    IN own # other =>
          /\ fee_cache'[other] = fee_cache[other]
          /\ stale_cache'[other] = stale_cache[other]
          /\ Hits => returned'.snapshot = TtlGet(fee_cache, own, now)

CompletionFrame(t) ==
    Completes(t) =>
       \A other \in CacheKeys \ {task[t].cache_key} :
          /\ stale_cache'[other] = stale_cache[other]
          /\ TtlLive(fee_cache, other, now) => fee_cache'[other] = fee_cache[other]

(* C11, as stated: under every configuration, precise mode disabled        *)
(* included, a call with precise = true and a call with precise = false on *)
(* the same chain use distinct cache keys, and neither is served from nor  *)
(* overwrites the entry of the other.                                      *)
C11_PrecisionFlagsIndependent ==
    [][/\ \A t \in Tasks, chain \in Chains, precise \in BOOLEAN, force_refresh \in BOOLEAN :
             GetChainFeeStart(t, chain, precise, force_refresh)
             => /\ _cache_key(chain, precise, enable_precise_mode)
                      # _cache_key(chain, ~precise, enable_precise_mode)
                /\ PreciseFrame(t, chain, precise)
       /\ \A t \in Tasks : CompletionFrame(t)]_vars

(* C11, amended: with precise mode enabled the two flags give distinct     *)
(* keys and the two entries are independent; with precise mode disabled    *)
(* both flags give the one key ending in 0 and the calls share its entry.  *)
C11_PrecisionFlagsIndependentWhenEnabled ==
    [][/\ \A t \in Tasks, chain \in Chains, precise \in BOOLEAN, force_refresh \in BOOLEAN :
             GetChainFeeStart(t, chain, precise, force_refresh)
             => /\ enable_precise_mode
                      => _cache_key(chain, precise, enable_precise_mode)
                            # _cache_key(chain, ~precise, enable_precise_mode)
                /\ ~enable_precise_mode
                      => _cache_key(chain, precise, enable_precise_mode)
                            = _cache_key(chain, FALSE, FALSE)
                /\ PreciseFrame(t, chain, precise)
       /\ \A t \in Tasks : CompletionFrame(t)]_vars

C11_Witness ==
    /\ enable_precise_mode
    /\ \E chain \in Chains :
          LET k0 == _cache_key(chain, FALSE, enable_precise_mode)
              k1 == _cache_key(chain, TRUE, enable_precise_mode)
          IN /\ TtlLive(fee_cache, k0, now)
             /\ TtlLive(fee_cache, k1, now)
             /\ fee_cache[k0].value # fee_cache[k1].value
             /\ stale_cache[k0] # stale_cache[k1]

(* C12, as stated: in one aggregate request, whatever way the computation  *)
(* of one chain fails, the response keeps one row per configured chain,    *)
(* each row being the payload of that chain's own get_chain_fee call.      *)
C12_ChainFailureIsolated ==
    (request # None /\ AllDone(request)) =>
       /\ request.response.t = "returned"
       /\ DOMAIN request.response.payload = Jobs
       /\ \A j \in Jobs :
             /\ request.results[j].t = "returned"
             /\ request.response.payload[j] = request.results[j].payload
             /\ request.response.payload[j].chain.key = get_chains[j].key

(* The same, for the failures that get_chain_fee catches.                  *)
C12_CaughtFailureIsolated ==
    (request # None /\ AllDone(request)
       /\ \A j \in Jobs : request.results[j].t = "returned") => C12_ChainFailureIsolated

(* The racing calls that are computing.                                    *)
Racing == {t \in RaceTasks : task[t].pc = "computing" /\ task[t].cache_key = RaceKey}

(* A snapshot of one successful computation, whole.                        *)
WholeSnapshot(snapshot) ==
    \E outcome \in ComputeOutcomes[RaceChain] :
       /\ outcome.res.ok
       /\ snapshot = FeeSnapshot(RaceChain, outcome.res.val, snapshot.fetched_at)

(* Every return of a racing call: a success leaves its own snapshot in     *)
(* both caches, a failure leaves both as they were.                        *)
RaceStores(t) ==
    Completes(t) =>
       IF Succeeded(returned')
       THEN /\ stale_cache'[RaceKey] = returned'.snapshot
            /\ TtlGet(fee_cache', RaceKey, now) = returned'.snapshot
            /\ WholeSnapshot(returned'.snapshot)
       ELSE /\ stale_cache'[RaceKey] = stale_cache[RaceKey]
            /\ TtlGet(fee_cache', RaceKey, now) = TtlGet(fee_cache, RaceKey, now)

(* The return of the last racing call, one of the computations having      *)
(* succeeded.                                                              *)
LastOfRace(t) ==
    /\ Completes(t)
    /\ Racing = {t}
    /\ Succeeded(returned') \/ task[t].raced

(* C13: for any interleaving of calls on one key that all begin before any *)
(* of them returns, once all have returned and one of their computations   *)
(* succeeded, the secondary store holds a whole snapshot of one successful *)
(* computation and the primary cache holds that same snapshot, for the TTL *)
(* of the entry; every success leaves its own snapshot in both, every      *)
(* failure leaves both as they were, so no entry mixes two computations.   *)
C13_SuccessCachedUntilTtl ==
    [][\A t \in RaceTasks :
          /\ RaceStores(t)
          /\ LastOfRace(t)
             => /\ stale_cache'[RaceKey] # None
                /\ WholeSnapshot(stale_cache'[RaceKey])
                /\ TtlGet(fee_cache', RaceKey, now) =
                      IF now < stale_cache'[RaceKey].fetched_at + cache_ttl_seconds
                      THEN stale_cache'[RaceKey]
                      ELSE None]_vars

(* All racing calls have returned, the last one failed, and the success of *)
(* another is still in both caches.                                        *)
C13_Witness ==
    /\ \A t \in RaceTasks : task[t].pc = "idle"
    /\ returned # None
    /\ Failed(returned)
    /\ calls_started = NumRaceTasks
    /\ stale_cache[RaceKey] # None
    /\ TtlGet(fee_cache, RaceKey, now) = stale_cache[RaceKey]
    /\ stale_cache[RaceKey].fetched_at < now

(* C14, as stated: however many concurrent calls on a key begin while no   *)
(* live primary entry exists, at most two computations run for the key     *)
(* before an entry is inserted.                                            *)
C14_AtMostOneRedundantComputation ==
    ~TtlLive(fee_cache, RaceKey, now) /\ stale_cache[RaceKey] = None
    => Cardinality(Racing) <= 2

(* C14, amended: every concurrent call on a key that begins while no live  *)
(* primary entry exists runs its own computation: before an entry is       *)
(* inserted, as many computations run as calls have begun.                 *)
C14_OneComputationPerConcurrentMiss ==
    [][calls_started' # calls_started /\ ~TtlLive(fee_cache', RaceKey, now)
       => /\ task' # task
          /\ Cardinality(Racing') = calls_started']_vars

C14_Witness ==
    /\ Cardinality(Racing) > 2
    /\ ~TtlLive(fee_cache, RaceKey, now)
    /\ stale_cache[RaceKey] = None

(* What the node answers to the n-th POST of the call under study.         *)
Answer(n) == ResponseAt(rpc_call.script, n)

HasErrorField(resp) ==
    resp.t = "http" /\ resp.status < 400 /\ resp.json
    /\ resp.data.t = "dict" /\ "error" \in DOMAIN resp.data.f

(* A failure that call_rpc retries while attempts remain.                  *)
Transient(resp) ==
    \/ resp.t = "conn"
    \/ resp.t = "http" /\ resp.status \in RETRYABLE_STATUS

Done == rpc_call.result # None

C16_SharedRetryBudget ==
    Done =>
       /\ rpc_call.result.posts <= rpc_call.retries + 1
       /\ \A n \in 1..(rpc_call.result.posts - 1) : Transient(Answer(n))
       /\ Transient(Answer(rpc_call.result.posts))
          => rpc_call.result.posts = rpc_call.retries + 1
       /\ Len(rpc_call.result.sleeps) = rpc_call.result.posts - 1
       /\ \A k \in 1..Len(rpc_call.result.sleeps) :
             rpc_call.result.sleeps[k] = rpc_call.initial_backoff * 2 ^ (k - 1)

(* Both kinds of failure use up the budget together, then the call fails.  *)
C16_Witness ==
    /\ Done
    /\ rpc_call.retries = MaxRetries
    /\ rpc_call.result.posts = MaxRetries + 1
    /\ \E n, m \in 1..MaxRetries :
          Answer(n).t = "conn" /\ Answer(m).t = "http" /\ Answer(m).status \in RETRYABLE_STATUS
    /\ Transient(Answer(MaxRetries + 1))
    /\ ~rpc_call.result.res.ok

(* C17: an HTTP error status outside the retryable set ends the call at    *)
(* its POST, the first one when it answers the first POST, with no sleep   *)
(* after it; when retryable failures last through all the retries, the     *)
(* call raises the httpx error of the last attempt itself.                 *)
C17_LastErrorReraised ==
    Done =>
       LET n == rpc_call.result.posts
           last == HandleResponse(Answer(n), RpcUrl)
       IN /\ Answer(1).t = "http" /\ Answer(1).status >= 400 /\ ~Transient(Answer(1))
             => n = 1 /\ rpc_call.result.sleeps = <<>>
          /\ Answer(n).t = "http" /\ Answer(n).status >= 400 /\ ~Transient(Answer(n))
             => /\ ~rpc_call.result.res.ok
                /\ rpc_call.result.res.exc = last.exc
                /\ rpc_call.result.res.exc.cls = "HTTPStatusError"
          /\ (\A k \in 1..(rpc_call.retries + 1) : Transient(Answer(k)))
             => /\ n = rpc_call.retries + 1
                /\ ~rpc_call.result.res.ok
                /\ rpc_call.result.res.exc = last.exc
                /\ rpc_call.result.res.exc.cls \in HTTPErrorClasses

(* The retries are used up by failures of which the last differs from the  *)
(* first.                                                                  *)
C17_Witness ==
    /\ Done
    /\ rpc_call.retries = MaxRetries
    /\ \A k \in 1..(MaxRetries + 1) : Transient(Answer(k))
    /\ HandleResponse(Answer(1), RpcUrl).exc # HandleResponse(Answer(MaxRetries + 1), RpcUrl).exc
    /\ rpc_call.result.res.exc = HandleResponse(Answer(MaxRetries + 1), RpcUrl).exc

(* Neither the chain's variable nor a usable shared-provider pair is set.  *)
MissingEndpoint(chain, osenv) ==
    /\ ~Truthy(osenv.rpc)
    /\ ~(Truthy(osenv.project_id) /\ chain.infura_network # <<>>)

(* The last call that returned ran a computation, in this world.           *)
WorldOf(call) == call.outcome.world

ComputedInWorld == returned # None /\ Computed(returned)

(* The calls of a computation that met more 503s than call_rpc retries.    *)
Exhausted(call) ==
    {i \in 1..Len(call.outcome.calls) :
        WorldOf(call).outage[call.outcome.calls[i].method] > DEFAULT_RETRIES}

(* The payload of the same call against a node that never answers 503.     *)
HealthyPayload(call) ==
    as_payload(FeeSnapshot(call.chain,
                           HealthyOutcome[call.chain][WorldOf(call).osenv][WorldOf(call).reward].res.val,
                           call.snapshot.fetched_at))

(* C18: resolution returns the chain's own variable when it is set, else   *)
(* the shared-provider URL built from the chain's network name and the     *)
(* project credential, else raises RPCError naming the chain's variable;   *)
(* in that last case the computation issues no RPC call, hence no retry,   *)
(* and get_chain_fee returns a stale payload when it has a last-known-good *)
(* snapshot and an error payload otherwise, for that chain.                *)
C18_MissingEndpointNoRpc ==
    /\ \A chain \in Chains, osenv \in WorldOsEnvs :
          LET url == resolve_rpc_url(chain, osenv) IN
          /\ Truthy(osenv.rpc) => url = Return(osenv.rpc)
          /\ ~Truthy(osenv.rpc) /\ ~MissingEndpoint(chain, osenv)
             => url = Return(Url("https", chain.infura_network[1] \o ".infura.io",
                                 "/v3/" \o osenv.project_id.s))
          /\ MissingEndpoint(chain, osenv)
             => /\ ~url.ok
                /\ url.exc.cls = "RPCError"
                /\ \E i \in 1..Len(url.exc.msg) : url.exc.msg[i] = Text(chain.rpc_env)
    /\ ComputedInWorld /\ MissingEndpoint(returned.chain, WorldOf(returned).osenv)
       => /\ returned.outcome.calls = <<>>
          /\ ~returned.outcome.res.ok
          /\ returned.outcome.res.exc.cls = "RPCError"
          /\ \E i \in 1..Len(returned.outcome.res.exc.msg) :
                returned.outcome.res.exc.msg[i] = Text(returned.chain.rpc_env)
          /\ returned.result.t = "returned"
          /\ returned.result.payload.chain.key = returned.chain.key
          /\ IF returned.stale_snapshot # None
             THEN IsStalePayload(returned.result.payload)
             ELSE IsErrorPayload(returned.result.payload)

(* The endpoint went missing after a success: the call is served stale.    *)
C18_Witness ==
    /\ ComputedInWorld
    /\ MissingEndpoint(returned.chain, WorldOf(returned).osenv)
    /\ Truthy(WorldOf(returned).osenv.project_id)
    /\ returned.stale_snapshot # None
    /\ returned.outcome.calls = <<>>

(* C19: when every method answers 503 at most `retries` times and then     *)
(* succeeds, the call returns a fresh payload with no error field and no   *)
(* stale marker, equal, notes included, to the payload of a node that      *)
(* never answers 503: each RPC took its 503s and one more POST.            *)
C19_TransientOutageInvisible ==
    ComputedInWorld /\ ~MissingEndpoint(returned.chain, WorldOf(returned).osenv)
    /\ (\A m \in Methods : WorldOf(returned).outage[m] <= DEFAULT_RETRIES)
    => /\ Succeeded(returned)
       /\ returned.result = Returned(HealthyPayload(returned))
       /\ "error" \notin DOMAIN returned.result.payload
       /\ "stale" \notin DOMAIN returned.result.payload
       /\ \A i \in 1..Len(returned.outcome.calls) :
             returned.outcome.calls[i].posts
                = WorldOf(returned).outage[returned.outcome.calls[i].method] + 1

(* A call whose RPCs used the whole retry budget and then succeeded.       *)
C19_Witness ==
    /\ ComputedInWorld
    /\ \A m \in Methods : WorldOf(returned).outage[m] <= DEFAULT_RETRIES
    /\ \E i \in 1..Len(returned.outcome.calls) :
          returned.outcome.calls[i].posts = DEFAULT_RETRIES + 1
    /\ \E i \in 1..Len(returned.outcome.calls) :
          returned.outcome.calls[i].posts = DEFAULT_RETRIES
    /\ returned.result.t = "returned"

(* C20, as stated: when an RPC method answers 503 more than `retries`      *)
(* times in a row, the call returns a stale payload or an error payload    *)
(* and does not raise, whatever the fee model and the method.              *)
C20_OutageGivesStaleOrError ==
    ComputedInWorld /\ Exhausted(returned) # {}
    => /\ returned.result.t = "returned"
       /\ \/ IsStalePayload(returned.result.payload)
          \/ IsErrorPayload(returned.result.payload)

(* C20, amended: when an RPC method answers 503 more than `retries` times  *)
(* in a row, the call does not raise; it returns a fresh payload computed  *)
(* through a fallback, whose notes differ from those of a healthy node,    *)
(* when the strategy has a fallback for the failing method, and otherwise  *)
(* a stale payload when it has a last-known-good snapshot and an error     *)
(* payload when it has none.                                               *)
C20_OutageGivesFallbackStaleOrError ==
    ComputedInWorld /\ Exhausted(returned) # {}
    => /\ returned.result.t = "returned"
       /\ IF Succeeded(returned)
          THEN /\ returned.result.payload = as_payload(returned.snapshot)
               /\ returned.result.payload.notes # HealthyPayload(returned).notes
          ELSE IF returned.stale_snapshot # None
               THEN IsStalePayload(returned.result.payload)
               ELSE IsErrorPayload(returned.result.payload)

(* An outage past the budget, answered with a fresh payload.               *)
C20_Witness ==
    /\ ComputedInWorld
    /\ Exhausted(returned) # {}
    /\ Succeeded(returned)
    /\ returned.result.t = "returned"
    /\ returned.stale_snapshot # None

(* The fee model a snapshot was computed under, as _compute_fee reads it.  *)
ModelOf(snapshot) ==
    Lower(IF snapshot.chain.fee_model = "" THEN "l1" ELSE snapshot.chain.fee_model)

FeeIdentity(snapshot) ==
    IF ModelOf(snapshot) = "optimism"
    THEN snapshot.data.native_fee_wei
            = snapshot.data.gas_price_wei * snapshot.data.gas_used + snapshot.data.l1_fee_wei
    ELSE /\ snapshot.data.native_fee_wei
               = snapshot.data.gas_price_wei * snapshot.data.gas_used
         /\ snapshot.data.l1_fee_wei = 0

(* The snapshots the two stores hold, expired entries included.            *)
StoredSnapshots ==
    {stale_cache[k] : k \in {x \in CacheKeys : stale_cache[x] # None}}
    \cup {fee_cache[k].value : k \in {x \in CacheKeys : fee_cache[x] # None}}

(* C21: every snapshot in the primary or the secondary store has           *)
(* native_fee_wei = gas_price_wei * gas_used and l1_fee_wei = 0 when its   *)
(* model is l1, arbitrum or linea, and native_fee_wei = gas_price_wei *    *)
(* gas_used + l1_fee_wei when its model is optimism, on every path, the    *)
(* gas-limit fallback and the legacy gas-price fallback included.          *)
C21_NativeFeeIdentity == \A snapshot \in StoredSnapshots : FeeIdentity(snapshot)

(* An optimism snapshot with a positive L1 fee is stored.                  *)
C21_Witness ==
    \E snapshot \in StoredSnapshots :
       /\ ModelOf(snapshot) = "optimism"
       /\ snapshot.data.l1_fee_wei > 0
       /\ snapshot.data.native_fee_wei > snapshot.data.gas_price_wei * snapshot.data.gas_used

(* The part of a rendered ERC-20 fee that is not gas price times limit.    *)
L1Share ==
    evaluated.payload.erc20.fee.wei
       - evaluated.snapshot.data.gas_price_wei * evaluated.snapshot.chain.erc20_gas_limit

(* C22: the rendered erc20.fee.wei is gas_price_wei * erc20_gas_limit,     *)
(* plus, only when l1_fee_wei > 0 and gas_used > 0, the quotient           *)
(* l1_fee_wei * erc20_gas_limit / gas_used rounded half up, which in       *)
(* integers is (2 * l1_fee_wei * erc20_gas_limit + gas_used) \div          *)
(* (2 * gas_used).                                                         *)
C22_Erc20FeeRoundsHalfUp ==
    evaluated.payload # None =>
       LET l1 == evaluated.snapshot.data.l1_fee_wei
           used == evaluated.snapshot.data.gas_used
           limit == evaluated.snapshot.chain.erc20_gas_limit
       IN IF l1 > 0 /\ used > 0
          THEN /\ L1Share = (2 * l1 * limit + used) \div (2 * used)
               /\ 2 * used * L1Share - used <= 2 * l1 * limit
               /\ 2 * l1 * limit < 2 * used * L1Share + used
          ELSE L1Share = 0

(* A tie: the quotient ends in one half and is rounded up.                 *)
C22_Witness ==
    /\ evaluated.payload # None
    /\ evaluated.snapshot.data.l1_fee_wei > 0
    /\ evaluated.snapshot.data.gas_used > 0
    /\ evaluated.snapshot.data.gas_price_wei > 0
    /\ 2 * evaluated.snapshot.data.l1_fee_wei * evaluated.snapshot.chain.erc20_gas_limit
          = 2 * evaluated.snapshot.data.gas_used * L1Share - evaluated.snapshot.data.gas_used

(* The parts of a URL that the sanitized form scheme://host/*** drops.     *)
HostOf(url) == IF "host" \in DOMAIN url THEN url.host ELSE url.netloc

UserinfoOf(url) == IF "userinfo" \in DOMAIN url THEN url.userinfo ELSE ""

SanitizedForm(message) ==
    [i \in 1..Len(message) |->
        IF message[i].t = "url" THEN Url(message[i].scheme, HostOf(message[i]), "/***")
        ELSE message[i]]

HasUrl(message) == \E i \in 1..Len(message) : message[i].t = "url"

(* A stale payload was returned for a failure whose message embeds a URL.  *)
StaleWithUrl ==
    /\ returned # None
    /\ returned.result.t = "returned"
    /\ IsStalePayload(returned.result.payload)
    /\ Failed(returned)
    /\ HasUrl(returned.outcome.res.exc.msg)

(* C23: in a stale payload, debug_error is the failure's message with      *)
(* every embedded URL replaced by scheme://host/***, so no userinfo, path  *)
(* or query part of a URL of the message appears in it.                    *)
C23_DebugErrorSanitized ==
    StaleWithUrl =>
        returned.result.payload.debug_error = SanitizedForm(returned.outcome.res.exc.msg)

(* The part of C23 that the sanitizer does achieve: netloc is kept whole   *)
(* and everything after it, path and query, is replaced by /***.           *)
C23_DebugErrorDropsPath ==
    StaleWithUrl =>
        /\ Len(returned.result.payload.debug_error) = Len(returned.outcome.res.exc.msg)
        /\ \A i \in 1..Len(returned.result.payload.debug_error) :
              LET part == returned.outcome.res.exc.msg[i]
              IN returned.result.payload.debug_error[i] =
                    IF part.t = "url" THEN Url(part.scheme, part.netloc, "/***") ELSE part

C23_Witness ==
    /\ StaleWithUrl
    /\ \E i \in 1..Len(returned.outcome.res.exc.msg) :
          /\ returned.outcome.res.exc.msg[i].t = "url"
          /\ UserinfoOf(returned.outcome.res.exc.msg[i]) # ""

(* The message shows a URL with something other than /*** after netloc.    *)
ExposesPath(message) ==
    \E i \in 1..Len(message) : message[i].t = "url" /\ message[i].rest # "/***"

(* The fields of a payload that carry the message of a failure.            *)
ErrorFields(payload) ==
    (IF "debug_error" \in DOMAIN payload THEN {payload.debug_error} ELSE {})
    \cup (IF "error" \in DOMAIN payload THEN {payload.error} ELSE {})

(* C24: no payload returned by get_chain_fee exposes the credentialed path *)
(* of an endpoint: in debug_error of a stale payload and in error of an    *)
(* error payload a URL of the failure's message appears only sanitized.    *)
C24_NoCredentialedPath ==
    (returned # None /\ returned.result.t = "returned") =>
        \A message \in ErrorFields(returned.result.payload) : ~ExposesPath(message)

(* The step in which a call of get_chain_fee returns.                      *)
ReturnsNow == Hits \/ \E t \in DOMAIN task : Completes(t)

IsFreshPayload(p) == "stale" \notin DOMAIN p /\ "error" \notin DOMAIN p

(* C25: a payload returned with no stale marker and no error field renders *)
(* a snapshot captured at most cache_ttl_seconds before the return, and a  *)
(* call returns from the primary cache only while the entry is live, that  *)
(* is, stored less than cache_ttl_seconds ago.                             *)
C25_FreshWithinTtl ==
    [][ReturnsNow /\ returned'.result.t = "returned" /\ IsFreshPayload(returned'.result.payload)
         => /\ returned'.snapshot # None
            /\ returned'.result.payload = as_payload(returned'.snapshot)
            /\ now' - returned'.snapshot.fetched_at <= cache_ttl_seconds
            /\ Hits => /\ TtlLive(fee_cache, returned'.cache_key, now)
                       /\ returned'.snapshot = fee_cache[returned'.cache_key].value
                       /\ now - returned'.snapshot.fetched_at < cache_ttl_seconds]_vars

(* A call returned an aged snapshot from the primary cache.                *)
C25_Witness ==
    /\ returned # None
    /\ returned.outcome = None
    /\ returned.result.t = "returned"
    /\ IsFreshPayload(returned.result.payload)
    /\ returned.started - returned.snapshot.fetched_at = cache_ttl_seconds - 1

(* n gwei in wei, for a digit n.                                           *)
WideGwei(n) == [i \in 1..10 |-> IF i = 10 THEN n ELSE 0]

Hex3b9aca00 == <<3, 11, 9, 10, 12, 10, 0, 0>>

Hex77359400 == <<7, 7, 3, 5, 9, 4, 0, 0>>

(* feeHistory returned base fee 0x3b9aca00 and last reward 0x77359400, and *)
(* the price was computed.                                                 *)
ExampleQuoted ==
    /\ evaluated.gas_price # None
    /\ evaluated.history.baseFeePerGas[Len(evaluated.history.baseFeePerGas)] = Hex3b9aca00
    /\ evaluated.history.reward[Len(evaluated.history.reward)][1] = Hex77359400

(* C26 as stated: with base fee 0x3b9aca00 and last reward 0x77359400 the  *)
(* effective gas price is 5,000,000,000 wei, displayed as gwei "5.0000".   *)
C26_ExampleFiveGwei ==
    ExampleQuoted =>
        evaluated.gas_price.wei = WideGwei(5) /\ evaluated.gas_price.gwei = "5.0000"

(* C26, amended: 0x3b9aca00 is 1,000,000,000 and 0x77359400 is             *)
(* 2,000,000,000, so the effective gas price is 3,000,000,000 wei,         *)
(* displayed as gwei "3.0000".                                             *)
C26_ExampleThreeGwei ==
    ExampleQuoted =>
        /\ WideHexValue(Hex3b9aca00) = WideGwei(1)
        /\ WideHexValue(Hex77359400) = WideGwei(2)
        /\ evaluated.gas_price.wei = WideGwei(3)
        /\ evaluated.gas_price.gwei = "3.0000"

C26_Witness == ExampleQuoted /\ evaluated.gas_price.gwei = "3.0000"

(* Within the 32-bit range the digit arithmetic agrees with the integers.  *)
WideMatchesNarrow ==
    \A d1, d2, d3 \in {0, 1, 9, 15} :
        LET digits == <<d1, d2, d3, d1, d2>>
        IN /\ WideString(WideHexValue(digits)) =
                 (IF HexValue(digits) = 0 THEN "" ELSE ToString(HexValue(digits)))
           /\ Wide_format_decimal(WideHexValue(digits), 9, 4)
                 = _format_decimal(HexValue(digits), 9, 4)
           /\ Wide_format_decimal(WideHexValue(digits), 5, 4)
                 = _format_decimal(HexValue(digits), 5, 4)

(* Where gas_used of a linea computation should come from, by the answers  *)
(* of the node.                                                            *)
GasSource(env) ==
    IF env.linea_estimateGas \in LineaUsable THEN "linea_estimateGas"
    ELSE IF env.eth_estimateGas \in EstimateUsable THEN "eth_estimateGas"
    ELSE "native_gas_limit"

SourceGas(source, chain) ==
    CASE source = "linea_estimateGas" -> 21248
      [] source = "eth_estimateGas" -> 24576
      [] source = "native_gas_limit" -> chain.native_gas_limit

LineaComputed == evaluated.computation # None

(* The same node with other answers to the two estimation methods.         *)
SamePrice(env) ==
    {e \in LineaEnvs : /\ e.eth_feeHistory = env.eth_feeHistory
                       /\ e.eth_gasPrice = env.eth_gasPrice}

LineaNotes(env) ==
    _compute_fee_linea(LineaChain, [rpc |-> RpcUrl, project_id |-> None], env).res.val.notes

(* gas_used comes from linea_estimateGas in each of its shapes, else from  *)
(* eth_estimateGas, else from native_gas_limit; the computation fails only *)
(* when the gas price step fails.                                          *)
LineaGasFallsBack ==
    LineaComputed =>
        LET out == evaluated.computation
            priced == _effective_gas_price(evaluated.env, RpcUrl).res
        IN /\ out.res.ok = priced.ok
           /\ ~out.res.ok => out.res = priced
           /\ out.res.ok =>
                 /\ out.res.val.gas_used = SourceGas(GasSource(evaluated.env), evaluated.chain)
                 /\ out.res.val.native_fee_wei = out.res.val.gas_used * out.res.val.gas_price_wei

(* C27 as stated: gas estimation never fails a linea computation, and the  *)
(* notes tell which of the three sources produced gas_used: no computation *)
(* with another source carries the same notes.                             *)
C27_LineaNotesTellSource ==
    /\ LineaGasFallsBack
    /\ (LineaComputed /\ evaluated.computation.res.ok) =>
          \A e \in SamePrice(evaluated.env) :
              LineaNotes(e) = evaluated.computation.res.val.notes
                 => GasSource(e) = GasSource(evaluated.env)

(* C27, amended: as above, but the notes tell only whether gas_used came   *)
(* from linea_estimateGas or from the fallback path; on the fallback path  *)
(* they name the class of the linea failure and are the same whether       *)
(* eth_estimateGas or native_gas_limit produced gas_used.                  *)
C27_LineaNotesTellPath ==
    /\ LineaGasFallsBack
    /\ (LineaComputed /\ evaluated.computation.res.ok) =>
          \A e \in SamePrice(evaluated.env) :
              /\ LineaNotes(e) = evaluated.computation.res.val.notes
                    => (GasSource(e) = "linea_estimateGas")
                          = (GasSource(evaluated.env) = "linea_estimateGas")
              /\ (e.linea_estimateGas = evaluated.env.linea_estimateGas
                     /\ GasSource(e) # "linea_estimateGas")
                    => LineaNotes(e) = evaluated.computation.res.val.notes

(* A linea computation took native_gas_limit after both estimations        *)
(* failed, and succeeded.                                                  *)
C27_Witness ==
    /\ LineaComputed
    /\ evaluated.computation.res.ok
    /\ GasSource(evaluated.env) = "native_gas_limit"
    /\ evaluated.computation.res.val.gas_used = evaluated.chain.native_gas_limit

BeefyRows == IF request = None THEN <<>> ELSE request.rows

(* The chain payload has a gas price and no error.                         *)
Priced(data) ==
    /\ data # None
    /\ "gas_price" \in DOMAIN data
    /\ ~("error" \in DOMAIN data /\ data.error # <<>>)

(* C28: every vault row built from a chain payload with a gas price and no *)
(* error has gas_price.wei equal to the gas price of that payload and      *)
(* native_fee.wei = gas_price.wei * the vault's withdraw gas limit.        *)
C28_VaultRowFee ==
    \A i \in 1..Len(BeefyRows) :
        Priced(BeefyRows[i].data) =>
            /\ BeefyRows[i].row.gas_price # None
            /\ BeefyRows[i].row.gas_price.wei = BeefyRows[i].data.gas_price.wei
            /\ BeefyRows[i].row.native_fee # None
            /\ BeefyRows[i].row.native_fee.wei
                  = BeefyRows[i].row.gas_price.wei * BeefyVaults[i].withdraw_gas_limit
            /\ BeefyRows[i].row.gas_limit = BeefyVaults[i].withdraw_gas_limit
            /\ BeefyRows[i].row.error = None

(* A row built from the payload get_chain_fee just returned carries a      *)
(* positive fee.                                                           *)
C28_Witness ==
    /\ returned # None
    /\ returned.result.t = "returned"
    /\ \E i \in 1..Len(BeefyRows) :
          /\ ~BeefyRows[i].cached
          /\ BeefyRows[i].data = returned.result.payload
          /\ Priced(BeefyRows[i].data)
          /\ BeefyRows[i].row.native_fee.wei > 0

(* What a strategy comes to on the arguments of the computation.           *)
StrategyOutcome(strategy) ==
    CASE strategy = "optimism" ->
            _compute_fee_optimism(evaluated.chain, evaluated.osenv, evaluated.env)
      [] strategy = "arbitrum" ->
            _compute_fee_arbitrum(evaluated.chain, evaluated.osenv, evaluated.env)
      [] strategy = "linea" ->
            _compute_fee_linea(evaluated.chain, evaluated.osenv, evaluated.env)
      [] strategy = "l1" ->
            _compute_fee_l1(evaluated.chain, evaluated.osenv, evaluated.env)

StrategyModes ==
    [optimism |-> {"optimism:l2+l1"}, arbitrum |-> {"arbitrum:eip1559", "arbitrum:legacy"},
     linea |-> {"linea:eip1559", "linea:legacy"}, l1 |-> {"l1:eip1559", "l1:legacy"}]

(* The computation is that of the one strategy: its result, its mode, and  *)
(* its RPC calls and no others.                                            *)
ComputedBy(strategy) ==
    /\ evaluated.computation = StrategyOutcome(strategy)
    /\ evaluated.computation.res.ok =>
          evaluated.computation.res.val.mode \in StrategyModes[strategy]

(* The tag in lower case, for the spellings of the three L2 models.        *)
CaseFolded(tag) ==
    IF tag \in {"optimism", "Optimism", "OPTIMISM"} THEN "optimism"
    ELSE IF tag \in {"arbitrum", "Arbitrum"} THEN "arbitrum"
    ELSE IF tag \in {"linea", "Linea"} THEN "linea"
    ELSE tag

(* C29 as stated: a chain tagged optimism, arbitrum or linea is computed   *)
(* by that strategy, a chain with any other tag or none by the l1          *)
(* strategy, and exactly one strategy runs.                                *)
C29_DispatchByTag ==
    evaluated.computation # None =>
        ComputedBy(IF evaluated.chain.fee_model \in {"optimism", "arbitrum", "linea"}
                   THEN evaluated.chain.fee_model ELSE "l1")

(* C29, amended: the tag is compared in lower case, so Optimism or         *)
(* OPTIMISM selects the optimism strategy as optimism does; a tag that is  *)
(* none of the three in any spelling, or no tag, selects the l1 strategy.  *)
C29_DispatchByLowerCaseTag ==
    evaluated.computation # None =>
        ComputedBy(IF CaseFolded(evaluated.chain.fee_model) \in {"optimism", "arbitrum", "linea"}
                   THEN CaseFolded(evaluated.chain.fee_model) ELSE "l1")

(* A chain with an unknown tag was computed, with mode l1:eip1559.         *)
C29_Witness ==
    /\ evaluated.computation # None
    /\ evaluated.chain.fee_model = "zksync"
    /\ evaluated.computation.res.ok
    /\ evaluated.computation.res.val.mode = "l1:eip1559"

(* eth_estimateGas failed in the computation under study.                  *)
EstimateFailed ==
    /\ evaluated.computation # None
    /\ \E f \in EstimateFailures : f.script = evaluated.env.eth_estimateGas

FailureClass == (CHOOSE f \in EstimateFailures : f.script = evaluated.env.eth_estimateGas).cls

(* C30: in the l1 strategy a failure of eth_estimateGas, of any kind and   *)
(* after its retries, does not fail the computation: gas_used is the       *)
(* chain's native_gas_limit, the notes begin with the fallback tag, and    *)
(* the gas price step runs afterwards and alone decides the outcome.       *)
C30_EstimateFailureFallsBack ==
    EstimateFailed =>
        LET out == evaluated.computation
            priced == _effective_gas_price(evaluated.env, RpcUrl)
        IN /\ out.calls[1].method = "eth_estimateGas"
           /\ out.calls = <<out.calls[1]>> \o priced.calls
           /\ out.calls[2].method = "eth_feeHistory"
           /\ out.res.ok = priced.res.ok
           /\ out.res.ok =>
                 /\ out.res.val.gas_used = evaluated.chain.native_gas_limit
                 /\ out.res.val.native_fee_wei
                       = evaluated.chain.native_gas_limit * out.res.val.gas_price_wei
                 /\ out.res.val.notes
                       = <<"fallback:" \o FailureClass \o ", " \o priced.res.val[2][1]>>
           /\ ~out.res.ok => out.res = priced.res

(* eth_estimateGas was unavailable beyond its retries and the computation  *)
(* succeeded with a native_gas_limit other than the default.               *)
C30_Witness ==
    /\ EstimateFailed
    /\ evaluated.env.eth_estimateGas = Down
    /\ evaluated.computation.calls[1].posts = DEFAULT_RETRIES + 1
    /\ evaluated.computation.res.ok
    /\ evaluated.computation.res.val.gas_used = 30000

(***************************************************************************)
(* The gas price step (SpecPrice).                                         *)
(***************************************************************************)
PriceEvaluated == evaluated.price # None

(* What call_rpc gave for eth_feeHistory.                                  *)
HistoryCall == call_rpc(evaluated.env.eth_feeHistory, RpcUrl, DEFAULT_RETRIES, INITIAL_BACKOFF_MS)

(* The answer is a fee history with base fees, as the node documents it.   *)
HistoryWellFormed ==
    /\ HistoryCall.res.ok
    /\ HistoryCall.res.val.t = "dict"
    /\ "result" \in DOMAIN HistoryCall.res.val.f
    /\ HistoryCall.res.val.f["result"].t = "dict"
    /\ "baseFeePerGas" \in DOMAIN HistoryCall.res.val.f["result"].f
    /\ HistoryCall.res.val.f["result"].f["baseFeePerGas"].items # <<>>

HistoryResult == HistoryCall.res.val.f["result"].f

LastBaseFee ==
    HexValue(HistoryResult["baseFeePerGas"].items[Len(HistoryResult["baseFeePerGas"].items)].digits)

(* The entries of the reward list, oldest first; none when the field is    *)
(* absent or null.                                                         *)
RewardEntries ==
    IF "reward" \in DOMAIN HistoryResult /\ HistoryResult["reward"].t = "list"
    THEN HistoryResult["reward"].items
    ELSE <<>>

NonEmptyRewards == {i \in DOMAIN RewardEntries : RewardEntries[i].items # <<>>}

LatestNonEmptyReward ==
    LET i == CHOOSE i \in NonEmptyRewards : \A j \in NonEmptyRewards : j <= i
    IN HexValue(RewardEntries[i].items[1].digits)

MethodsCalled(out) == [i \in DOMAIN out.calls |-> out.calls[i].method]

MaxPriorityValue == ResultInt(call_rpc(evaluated.env.eth_maxPriorityFeePerGas, RpcUrl, DEFAULT_RETRIES, INITIAL_BACKOFF_MS).res)

(* C31: when eth_feeHistory succeeds the gas price is the last base fee    *)
(* plus the most recent non-empty entry of the reward list, and            *)
(* eth_maxPriorityFeePerGas is queried only when the reward list has no    *)
(* non-empty entry.                                                        *)
C31_LatestNonEmptyReward ==
    (PriceEvaluated /\ HistoryWellFormed) =>
        IF NonEmptyRewards # {}
        THEN /\ MethodsCalled(evaluated.price) = <<"eth_feeHistory">>
             /\ evaluated.price.res.ok
             /\ evaluated.price.res.val[1] = LastBaseFee + LatestNonEmptyReward
        ELSE /\ MethodsCalled(evaluated.price)[2] = "eth_maxPriorityFeePerGas"
             /\ MaxPriorityValue.ok =>
                   /\ evaluated.price.res.ok
                   /\ evaluated.price.res.val[1] = LastBaseFee + MaxPriorityValue.val

(* What the code does: only the newest entry of the reward list is looked  *)
(* at; when it is empty the node's eth_maxPriorityFeePerGas is taken, even *)
(* though an older entry holds a reward.                                   *)
C31_NewestRewardEntryOnly ==
    (PriceEvaluated /\ HistoryWellFormed) =>
        IF RewardEntries # <<>> /\ RewardEntries[Len(RewardEntries)].items # <<>>
        THEN /\ MethodsCalled(evaluated.price) = <<"eth_feeHistory">>
             /\ evaluated.price.res.ok
             /\ evaluated.price.res.val
                   = <<LastBaseFee + HexValue(RewardEntries[Len(RewardEntries)].items[1].digits),
                       <<PercentileNote>>, "eip1559">>
        ELSE /\ MethodsCalled(evaluated.price)[2] = "eth_maxPriorityFeePerGas"
             /\ MaxPriorityValue.ok =>
                   /\ evaluated.price.res.ok
                   /\ evaluated.price.res.val
                         = <<LastBaseFee + MaxPriorityValue.val,
                             <<PercentileNote \o "+maxPriority">>, "eip1559">>

(* An older block has a reward, the newest has none, and the node's        *)
(* suggestion was used.                                                    *)
C31_Witness ==
    /\ PriceEvaluated
    /\ HistoryWellFormed
    /\ NonEmptyRewards = {1}
    /\ Len(RewardEntries) = 2
    /\ MethodsCalled(evaluated.price) = <<"eth_feeHistory", "eth_maxPriorityFeePerGas">>
    /\ evaluated.price.res.ok
    /\ evaluated.price.res.val[1] = 3 + 7

GasPriceCalled == \E i \in DOMAIN evaluated.price.calls : evaluated.price.calls[i].method = "eth_gasPrice"

(* C32: the gas price step falls back to eth_gasPrice with mode legacy if  *)
(* and only if the eth_feeHistory call itself fails; whenever              *)
(* eth_feeHistory succeeds the mode is eip1559 and eth_gasPrice is not     *)
(* called.                                                                 *)
C32_FallbackIffHistoryCallFails ==
    PriceEvaluated =>
        /\ GasPriceCalled <=> ~HistoryCall.res.ok
        /\ HistoryCall.res.ok =>
              /\ evaluated.price.res.ok
              /\ evaluated.price.res.val[3] = "eip1559"
        /\ (~HistoryCall.res.ok /\ evaluated.price.res.ok) => evaluated.price.res.val[3] = "legacy"

HistoryRead == FeeHistoryFees(HistoryCall.res.val)

(* A step of the try block failed: the eth_feeHistory call, the reading of *)
(* its result, or the eth_maxPriorityFeePerGas query made when the newest  *)
(* reward entry is empty or missing.                                       *)
Eip1559StepFailed ==
    \/ ~HistoryCall.res.ok
    \/ ~HistoryRead.ok
    \/ HistoryRead.val.priority_fee = <<>> /\ ~MaxPriorityValue.ok

FailureOfEip1559Step ==
    IF ~HistoryCall.res.ok THEN HistoryCall.res.exc
    ELSE IF ~HistoryRead.ok THEN HistoryRead.exc ELSE MaxPriorityValue.exc

GasPriceValue == ResultInt(call_rpc(evaluated.env.eth_gasPrice, RpcUrl, DEFAULT_RETRIES, INITIAL_BACKOFF_MS).res)

(* C32, as the code has it: the step falls back to eth_gasPrice if and     *)
(* only if any part of the fee-history path fails, the call, the reading   *)
(* of its result or the eth_maxPriorityFeePerGas query; the fallback gives *)
(* the eth_gasPrice value with mode legacy and a note naming the class of  *)
(* the failure, and fails when eth_gasPrice fails; otherwise the mode is   *)
(* eip1559 and eth_gasPrice is not called.                                 *)
C32_FallbackIffAnyStepFails ==
    PriceEvaluated =>
        /\ GasPriceCalled <=> Eip1559StepFailed
        /\ ~Eip1559StepFailed =>
              /\ evaluated.price.res.ok
              /\ evaluated.price.res.val[3] = "eip1559"
        /\ Eip1559StepFailed =>
              /\ evaluated.price.calls[Len(evaluated.price.calls)].method = "eth_gasPrice"
              /\ evaluated.price.res.ok = GasPriceValue.ok
              /\ GasPriceValue.ok =>
                    evaluated.price.res.val
                       = <<GasPriceValue.val,
                           <<"fallback gasPrice (" \o FailureOfEip1559Step.cls \o ")">>, "legacy">>
              /\ ~GasPriceValue.ok => evaluated.price.res = GasPriceValue

(* eth_feeHistory answered with base fees and no reward, the               *)
(* eth_maxPriorityFeePerGas query was unavailable beyond its retries, and  *)
(* the step fell back to eth_gasPrice.                                     *)
C32_Witness ==
    /\ PriceEvaluated
    /\ HistoryWellFormed
    /\ RewardEntries = <<>>
    /\ evaluated.env.eth_maxPriorityFeePerGas = Down
    /\ MethodsCalled(evaluated.price) = <<"eth_feeHistory", "eth_maxPriorityFeePerGas", "eth_gasPrice">>
    /\ evaluated.price.res.ok
    /\ evaluated.price.res.val = <<4, <<"fallback gasPrice (HTTPStatusError)">>, "legacy">>

(***************************************************************************)
(* The strategies without a gas fallback (SpecStrict).                     *)
(***************************************************************************)
(* What eth_estimateGas and the reading of its result come to on a node.   *)
EstimateOn(env) == ResultInt(call_rpc(env.eth_estimateGas, RpcUrl, DEFAULT_RETRIES, INITIAL_BACKOFF_MS).res)

(* Task t returns from its computation in this step.                       *)
Finishes(t) == task[t].pc = "computing" /\ task'[t].pc = "idle"

(* C33: in the arbitrum and optimism strategies gas_used is never a        *)
(* configured constant: when eth_estimateGas fails the computation fails   *)
(* with RPCError, no later RPC step is issued, and the call writes to      *)
(* neither cache; when the computation succeeds gas_used is what           *)
(* eth_estimateGas answered.                                               *)
C33_NoGasFallback ==
    [][\A t \in Tasks :
          (Finishes(t) /\ task[t].chain.fee_model \in {"arbitrum", "optimism"}) =>
             LET out == returned'.outcome
             IN /\ ~EstimateOn(out.env).ok =>
                      /\ ~out.res.ok
                      /\ out.res.exc.cls = "RPCError"
                      /\ MethodsCalled(out) = <<"eth_estimateGas">>
                      /\ fee_cache' = fee_cache
                      /\ stale_cache' = stale_cache
                      /\ returned'.result.t = "returned"
                      /\ \/ "error" \in DOMAIN returned'.result.payload
                         \/ "stale" \in DOMAIN returned'.result.payload
                /\ out.res.ok =>
                      /\ EstimateOn(out.env).ok
                      /\ out.res.val.gas_used = EstimateOn(out.env).val]_vars

(* An arbitrum call whose eth_estimateGas was reverted by the node         *)
(* returned an error payload while the rest of the node was healthy, and   *)
(* both caches are empty.                                                  *)
C33_Witness ==
    /\ returned # None
    /\ returned.outcome # None
    /\ returned.chain.fee_model = "arbitrum"
    /\ returned.outcome.env.eth_estimateGas = <<ErrorObject("execution reverted")>>
    /\ returned.outcome.env.eth_gasPrice = <<OkResult(JHex(<<4>>))>>
    /\ returned.outcome.res.exc.cls = "RPCError"
    /\ "error" \in DOMAIN returned.result.payload
    /\ \A k \in CacheKeys : fee_cache[k] = None /\ stale_cache[k] = None

GasPriceOn(env) == ResultInt(call_rpc(env.eth_gasPrice, RpcUrl, DEFAULT_RETRIES, INITIAL_BACKOFF_MS).res)

OracleOn(env) == ResultInt(call_rpc(env.eth_call, RpcUrl, DEFAULT_RETRIES, INITIAL_BACKOFF_MS).res)

(* The transaction handed to the oracle by the third RPC call.             *)
OracleTx(out) == out.calls[3].params[1].data.bytes

(* C34: in the optimism strategy the oracle eth_call comes after           *)
(* eth_estimateGas and eth_gasPrice and carries their results; the native  *)
(* fee is gas_used * gas_price_wei + l1_fee_wei; any failure of the oracle *)
(* call gives l1_fee_wei = 0 with a fallback note, and the computation     *)
(* succeeds and is stored in both caches and returned like any other.      *)
C34_OracleAfterEstimateAndPrice ==
    [][\A t \in Tasks :
          (/\ Finishes(t)
           /\ task[t].chain.fee_model = "optimism"
           /\ EstimateOn(returned'.outcome.env).ok
           /\ GasPriceOn(returned'.outcome.env).ok) =>
             LET out == returned'.outcome
                 gas_used == EstimateOn(out.env).val
                 gas_price == GasPriceOn(out.env).val
                 oracle == OracleOn(out.env)
                 snapshot == FeeSnapshot(task[t].chain, out.res.val, now)
             IN /\ out.res.ok
                /\ MethodsCalled(out) = <<"eth_estimateGas", "eth_gasPrice", "eth_call">>
                /\ OracleTx(out)[2] = gas_price
                /\ OracleTx(out)[3] = gas_used
                /\ out.res.val.gas_used = gas_used
                /\ out.res.val.gas_price_wei = gas_price
                /\ out.res.val.native_fee_wei = gas_used * gas_price + out.res.val.l1_fee_wei
                /\ out.res.val.mode = "optimism:l2+l1"
                /\ IF oracle.ok
                   THEN /\ out.res.val.l1_fee_wei = oracle.val
                        /\ out.res.val.notes
                              = <<"eth_estimateGas, eth_gasPrice, GasPriceOracle.getL1Fee">>
                   ELSE /\ out.res.val.l1_fee_wei = 0
                        /\ out.res.val.notes
                              = <<"eth_estimateGas, eth_gasPrice, optimism l1 fee fallback ("
                                     \o oracle.exc.cls \o ")">>
                /\ TtlGet(fee_cache', task[t].cache_key, now) = snapshot
                /\ stale_cache'[task[t].cache_key] = snapshot
                /\ returned'.result = Returned(as_payload(snapshot))]_vars

(* The oracle reverted: the optimism fee was computed with an L1 fee of    *)
(* zero and sits in the primary cache.                                     *)
C34_Witness ==
    /\ returned # None
    /\ returned.outcome # None
    /\ returned.chain.fee_model = "optimism"
    /\ returned.outcome.env.eth_call = <<ErrorObject("execution reverted")>>
    /\ returned.outcome.res.ok
    /\ returned.outcome.res.val.l1_fee_wei = 0
    /\ returned.outcome.res.val.native_fee_wei = 24576 * 4
    /\ returned.outcome.res.val.notes
          = <<"eth_estimateGas, eth_gasPrice, optimism l1 fee fallback (RPCError)">>
    /\ TtlGet(fee_cache, returned.cache_key, now) # None
    /\ TtlGet(fee_cache, returned.cache_key, now).data.l1_fee_wei = 0

(***************************************************************************)
(* The aggregate request (SpecAggregate).                                  *)
(***************************************************************************)
(* C35: one list_fees request launches at most one fee computation per     *)
(* configured chain, whatever the refresh flag, the vault chains read by   *)
(* get_beefy_withdraw_fees in the same request included.                   *)
C35_OneComputationPerChain ==
    IF request = None THEN TRUE
    ELSE \A k \in ChainKeys : request.launched[k] <= 1

(* The gathered jobs alone launch at most one computation per chain.       *)
C35_GatherLaunchesOncePerChain ==
    IF request = None THEN TRUE
    ELSE request.pc \in {"gather", "gathered"} =>
            \A k \in ChainKeys : request.launched[k] <= 1

(* Without the refresh flag, a vault's chain is computed again only when   *)
(* the gathered job left no live entry under the key of the plain call.    *)
C35_SecondLaunchWithoutRefresh ==
    [][(/\ request # None
        /\ request.pc = "loop"
        /\ ~request.force_refresh
        /\ request'.pc = "awaiting") =>
          LET chain == ChainOfVault(BeefyVaults[request.index])
          IN TtlGet(fee_cache, _cache_key(chain, FALSE, enable_precise_mode), now) = None]_vars


(* A request with the refresh flag whose gathered job for ethereum         *)
(* returned a fee, and which has begun a second computation for ethereum.  *)
AggregateRefreshedTwice ==
    /\ request # None
    /\ request.force_refresh
    /\ request.launched["ethereum"] = 2
    /\ "gas_price" \in DOMAIN request.results[1].payload

(***************************************************************************)
(* Payload objects (SpecAlias).                                            *)
(***************************************************************************)
Rows == evaluated.rows

(* C36: cached snapshots are never mutated and every get_chain_fee call    *)
(* returns a freshly built payload: a row the orchestrator has not yet     *)
(* touched reads exactly as get_chain_fee returned it, whatever was added  *)
(* to or changed in other rows served from the same snapshot (lp_breaker,  *)
(* fiat fields, stale, debug_error, notes), and no two rows share an       *)
(* object.                                                                 *)
C36_PayloadsAreFresh ==
    /\ \A i \in DOMAIN Rows :
          ~Rows[i].touched => Deref(evaluated.heap, Rows[i].ref) = Rows[i].payload
    /\ \A i, j \in DOMAIN Rows :
          i # j => Reach(evaluated.heap, Rows[i].ref) \cap Reach(evaluated.heap, Rows[j].ref) = {}

(* A row was shaped by the orchestrator, and a later call was served from  *)
(* the same snapshot, once from the primary cache and once as a stale      *)
(* payload.                                                                *)
C36_Witness ==
    /\ Len(Rows) = 3
    /\ Rows[1].touched
    /\ "lp_breaker" \in DOMAIN evaluated.heap[Rows[1].ref]
    /\ Rows[2].snapshot = Rows[1].snapshot
    /\ Rows[3].snapshot = Rows[1].snapshot
    /\ Rows[2].after >= 1
    /\ ~Rows[2].touched
    /\ "stale" \notin DOMAIN Rows[2].payload
    /\ "stale" \in DOMAIN Rows[3].payload
    /\ ~Rows[3].touched

(* C37: with concurrent calls on one key, a call whose computation fails   *)
(* answers from the secondary store as it is at the moment of the failure: *)
(* when an entry exists then, also one written by another call during this *)
(* call's computation, the result is the stale payload of that entry,      *)
(* never an error payload and never an older snapshot.                     *)
C37_FailureReadsSecondaryAtFailure ==
    (/\ returned # None
     /\ Failed(returned)
     /\ Caught(returned.outcome.res.exc)
     /\ returned.secondary # None) =>
        returned.result = Returned(StalePayload(returned.secondary, returned.outcome.res.exc))

(* What the code does: the failing call answers from what the secondary    *)
(* store held when the call began.                                         *)
C37_FailureUsesSecondaryAtStart ==
    (/\ returned # None
     /\ Failed(returned)
     /\ Caught(returned.outcome.res.exc)) =>
        returned.result =
           IF returned.stale_snapshot # None
           THEN Returned(StalePayload(returned.stale_snapshot, returned.outcome.res.exc))
           ELSE Returned(_error_payload(returned.chain, returned.outcome.res.exc.msg))

(* A failing call returned an error payload while the secondary store held *)
(* a snapshot written during its computation.                              *)
C37_ErrorDespiteSecondary ==
    /\ returned # None
    /\ Failed(returned)
    /\ returned.raced
    /\ returned.secondary # None
    /\ returned.result.t = "returned"
    /\ "error" \in DOMAIN returned.result.payload

(* C38: in every state reachable through get_chain_fee calls, a live       *)
(* primary entry for a key means the secondary store holds the identical   *)
(* snapshot for the key, so a call served from the primary cache returns   *)
(* the payload of the last known good.                                     *)
C38_LivePrimaryIsLastKnownGood ==
    /\ \A k \in CacheKeys :
          TtlLive(fee_cache, k, now) => stale_cache[k] = fee_cache[k].value
    /\ (returned # None /\ returned.outcome = None) =>
          /\ returned.secondary # None
          /\ returned.result = Returned(as_payload(returned.secondary))

(* A call was served from the primary cache with a snapshot stored after   *)
(* the clock had advanced, and the secondary store holds that snapshot.    *)
C38_Witness ==
    /\ returned # None
    /\ returned.outcome = None
    /\ returned.snapshot.fetched_at > 0
    /\ TtlLive(fee_cache, returned.cache_key, now)
    /\ stale_cache[returned.cache_key] = returned.snapshot

(***************************************************************************)
(* Termination (SpecRpcSteps, FairSpec).                                   *)
(***************************************************************************)
(* Every call_rpc call ends after at most retries + 1 POSTs and at most    *)
(* retries sleeps, with the result the call_rpc operator gives.            *)
C39_RpcCallEnds ==
    /\ <>(evaluated.result # None)
    /\ [](/\ evaluated.posts <= evaluated.retries + 1
          /\ Len(evaluated.sleeps) <= evaluated.retries
          /\ evaluated.result # None =>
                LET c == call_rpc(evaluated.script, RpcUrl, evaluated.retries,
                                  evaluated.initial_backoff)
                IN /\ c.posts = evaluated.posts
                   /\ c.sleeps = evaluated.sleeps
                   /\ c.res.ok = evaluated.result.ok)

RpcBudgetKept(call) ==
    \A i \in DOMAIN call.outcome.calls :
       /\ call.outcome.calls[i].posts <= DEFAULT_RETRIES + 1
       /\ Len(call.outcome.calls[i].sleeps) <= DEFAULT_RETRIES

(* C39: every call_rpc call ends after at most retries + 1 POSTs and at    *)
(* most retries backoff sleeps, whatever the node answers, so every        *)
(* get_chain_fee call eventually returns a payload.                        *)
C39_EveryCallReturnsPayload ==
    /\ [](returned # None /\ returned.outcome # None => RpcBudgetKept(returned))
    /\ \A t \in Tasks : (task[t].pc = "computing") ~> (task[t].pc = "idle")
    /\ [](returned # None => returned.result.t = "returned")

(* What holds: every call ends, within the retry budget of each of its     *)
(* RPCs; it returns a payload unless its computation fails with an         *)
(* exception get_chain_fee does not catch, which the call raises.          *)
C39_EveryCallEnds ==
    /\ [](returned # None /\ returned.outcome # None => RpcBudgetKept(returned))
    /\ \A t \in Tasks : (task[t].pc = "computing") ~> (task[t].pc = "idle")
    /\ [](returned # None =>
             \/ returned.result.t = "returned"
             \/ Failed(returned) /\ ~Caught(returned.outcome.res.exc))

(***************************************************************************)
(* The vault cache (SpecBeefy).                                            *)
(***************************************************************************)
FreshChainPayload(data) == "error" \notin DOMAIN data /\ "stale" \notin DOMAIN data

(* C40: get_beefy_withdraw_fees stores a vault row only when it was built  *)
(* from a fresh successful chain payload: no entry of the vault cache      *)
(* comes from an error payload or a stale payload of get_chain_fee, so a   *)
(* row served from the vault cache never carries one.                      *)
C40_OnlyFreshRowsCached ==
    /\ \A k \in VaultKeys :
          vault_cache[k] # None => FreshChainPayload(vault_cache[k].value.data)
    /\ \A i \in 1..Len(BeefyRows) :
          BeefyRows[i].cached => FreshChainPayload(BeefyRows[i].data)

(* What the code does: every row built from a chain payload is stored,     *)
(* whatever the payload; only the row of a vault whose chain is not        *)
(* configured is not.                                                      *)
C40_EveryChainRowCached ==
    [][(/\ request # None
        /\ request' # None
        /\ request.pc \in {"loop", "awaiting"}
        /\ Len(request'.rows) = Len(request.rows) + 1
        /\ ~request'.rows[Len(request'.rows)].cached
        /\ request'.rows[Len(request'.rows)].data # None) =>
          LET vault == BeefyVaults[request.index]
          IN /\ TtlGet(vault_cache', vault.key, now) # None
             /\ TtlGet(vault_cache', vault.key, now).data = request'.rows[Len(request'.rows)].data]_vars

(* A call without the refresh flag served a vault row from the cache that  *)
(* was built from an error payload.                                        *)
C40_ErrorRowServedFromCache ==
    /\ request # None
    /\ ~request.force_refresh
    /\ \E i \in 1..Len(BeefyRows) :
          /\ BeefyRows[i].cached
          /\ "error" \in DOMAIN BeefyRows[i].data

(* The vault cache holds a row built from a stale payload.                 *)
C40_StaleRowCached ==
    \E k \in VaultKeys :
       /\ vault_cache[k] # None
       /\ "stale" \in DOMAIN vault_cache[k].value.data
====
